---- MODULE Spec2Model ----
(***************************************************************************)
(* Model of the Silver Pro copy-trade relay server (server.js, auth.js,    *)
(* database.js): session admission, the in-memory connection registry,     *)
(* the trade broadcast, the keepalive, the periodic cleanup, the license   *)
(* verification endpoints and the shutdown on a signal.                    *)
(*                                                                         *)
(* Every async handler is a small state machine: one action runs the       *)
(* synchronous code from one `await` to the next.  The effect of a         *)
(* database call is applied when the call completes (the action that       *)
(* resumes the handler), with the parameters bound when it was issued, and *)
(* a database call may reject.  A rejection that no handler catches ends   *)
(* the process, as node does with an unhandled promise rejection.          *)
(***************************************************************************)
EXTENDS Integers, Sequences, FiniteSets, TLC

\* ------------------------------------------------------------------ bounds
NumConns == 2        \* WebSocket connections
MaxInFlight == 2     \* message handlers of one socket suspended at the same time
MaxSweeps == 2       \* calls of the cleanup callback suspended at the same time
MaxEvents == 4       \* events from outside in one run: messages, requests, closes,
                     \* socket errors, timer ticks, database calls that reject

\* ------------------------------------------------------------ identifiers
Conns == 1..NumConns                                \* clientId of a socket
HttpIds == (NumConns + 1)..(NumConns + 2)           \* an HTTP request slot
\* ws.on('message', async ...) starts a handler for every message, also while
\* an earlier one of the same socket is suspended: handler c is the first of
\* socket c, and c + k * (NumConns + 2) its next ones.
WsHandlers == {c + k * (NumConns + 2) : c \in Conns, k \in 0..(MaxInFlight - 1)}
Handlers == WsHandlers \cup HttpIds
\* setInterval calls the cleanup callback whether or not an earlier call has
\* returned: a sweep is one call of it
Sweeps == 1..MaxSweeps
\* the signals the server installs a handler for
Signals == {"SIGTERM", "SIGINT"}
NoShutdown == [log |-> 0, close |-> 0]
\* the clientId in the closure of message handler h
Sock(h) == ((h - 1) % (NumConns + 2)) + 1

Undefined == "undefined"       \* JS undefined / a missing field
NoRow == [found |-> FALSE]     \* db.get resolving with no row

\* ------------------------------------------------------------- time
MsPerSec == 1000
ReapTimeoutSec == 300
StartMs == 1000 * MsPerSec
\* Math.floor(Date.now() / 1000)
NowSec(ms) == ms \div MsPerSec
TickSteps == {MsPerSec, ReapTimeoutSec * MsPerSec}

\* ------------------------------------------------------------- auth.js
\* An API key as the message carries it: absent, or a string of some length.
ApiKey(n) == [present |-> TRUE, length |-> n]
NoApiKey == [present |-> FALSE, length |-> 0]
MinKeyLen == 16
ApiKeyInputs == {NoApiKey, ApiKey(0), ApiKey(MinKeyLen), ApiKey(MinKeyLen + 1)}

verifyAPIKey_loose(apiKey) ==
  apiKey.present /\ apiKey.length # 0 /\ apiKey.length >= MinKeyLen

\* return apiKey && apiKey.length > 16  (undefined and "" are falsy)
verifyAPIKey(apiKey) ==
  apiKey.present /\ apiKey.length # 0 /\ apiKey.length > MinKeyLen

\* The token of a request (Authorization: Bearer ..., or x-api-key): absent, or
\* a string that carries the server's signature or not, and an expiry second.
Token(signed, exp) == [present |-> TRUE, signed |-> signed, exp |-> exp]
NoToken == [present |-> FALSE, signed |-> FALSE, exp |-> 0]

\* verifyToken: three parts, the HMAC of the first two as signature, and not
\* payload.exp < Math.floor(Date.now() / 1000)
verifyToken(token, ms) ==
  token.present /\ token.signed /\ ~(token.exp < NowSec(ms))

\* authenticate: the error of the 401 answer, or "" when next() is called
authenticate(token, ms) ==
  IF ~token.present THEN "No authentication token provided"
  ELSE IF ~verifyToken(token, ms) THEN "Invalid or expired token"
  ELSE ""

\* ------------------------------------------------------------- licenses
DemoKey == "DEMO-KEY-12345678"
\* A nullable column: <<>> is NULL, <<v>> holds v.
Null == <<>>
Some(v) == <<v>>
LicenseRow(st, exp, cnt) ==
  [found |-> TRUE, status |-> st, expiry_date |-> exp, activation_count |-> cnt,
   last_verified |-> Null]

\* SELECT * FROM licenses WHERE license_key = ?
getLicense(table, licenseKey) ==
  IF licenseKey \in DOMAIN table THEN table[licenseKey] ELSE NoRow

ActivationCase_always(cnt) ==
  IF cnt = Null THEN Some(1) ELSE Some(cnt[1] + 1)

\* CASE WHEN activation_count IS NULL THEN 1
\*      WHEN activation_count < 1 THEN activation_count + 1
\*      ELSE activation_count END
ActivationCase(cnt) ==
  IF cnt = Null THEN Some(1)
  ELSE IF cnt[1] < 1 THEN Some(cnt[1] + 1)
  ELSE cnt

\* UPDATE licenses SET last_verified = ?, activation_count = CASE ... WHERE license_key = ?
updateLicenseVerified(table, licenseKey, ms) ==
  [k \in DOMAIN table |->
     IF k = licenseKey
     THEN [table[k] EXCEPT !.last_verified = Some(NowSec(ms)),
                           !.activation_count = ActivationCase(@)]
     ELSE table[k]]

\* UPDATE licenses SET status = 'inactive' WHERE license_key = ?
deactivateLicense(table, licenseKey) ==
  [k \in DOMAIN table |->
     IF k = licenseKey THEN [table[k] EXCEPT !.status = "inactive"] ELSE table[k]]

WsLicenseRejected_exclusive(license, ms) ==
  \/ ~license.found
  \/ license.status # "active"
  \/ NowSec(ms) >= license.expiry_date

\* registerReceiver:
\* !license || license.status !== 'active' || Math.floor(Date.now()/1000) > license.expiry_date
WsLicenseRejected(license, ms) ==
  \/ ~license.found
  \/ license.status # "active"
  \/ NowSec(ms) > license.expiry_date

\* POST /api/register-receiver: the same test, answered with 401
HttpLicenseRejected(license, ms) ==
  \/ ~license.found
  \/ license.status # "active"
  \/ NowSec(ms) > license.expiry_date

\* POST /api/verify-license: the message of the response
VerifyLicenseAnswer(license, ms) ==
  IF ~license.found THEN "Invalid license"
  ELSE IF license.status # "active" THEN "License inactive"
  ELSE IF NowSec(ms) > license.expiry_date THEN "License expired"
  ELSE "verified"

\* ------------------------------------------------------------- maps
\* A JS Map / a table keyed by its unique column: a function on the keys present.
EmptyMap == [k \in {} |-> Undefined]
MapSet(m, k, v) == [x \in DOMAIN m \cup {k} |-> IF x = k THEN v ELSE m[x]]
MapDelete(m, k) == [x \in DOMAIN m \ {k} |-> m[x]]

\* ------------------------------------------------------------- trades
Trade(sym, act, vol, lic) ==
  [isObject |-> TRUE, symbol |-> sym, action |-> act, volume |-> vol, licenseKey |-> lic]
FullTrade == Trade("EURUSD", "BUY", Some(1), DemoKey)
MasterTrade == Trade("EURUSD", "BUY", Some(1), Undefined)
EmptyTrade == Trade(Undefined, Undefined, Null, Undefined)
\* data.trade missing, or a string or number
NonObjectTrade == [isObject |-> FALSE, symbol |-> Undefined, action |-> Undefined,
                   volume |-> Null, licenseKey |-> Undefined]
\* volume 0 and licenseKey '': present, and falsy
ZeroVolumeTrade == Trade("EURUSD", "BUY", Some(0), "")
AnonymousTrade == Trade("EURUSD", "BUY", Some(1), "")
WsTradeInputs == {MasterTrade, EmptyTrade, NonObjectTrade, ZeroVolumeTrade}
RelayTradeInputs == {MasterTrade, NonObjectTrade}
HttpTradeInputs == {FullTrade, EmptyTrade, ZeroVolumeTrade}
BroadcastTradeInputs == {FullTrade, AnonymousTrade}

\* !x for a string or a missing field: undefined and '' are falsy
Falsy(x) == x = Undefined \/ x = ""
\* !x for a number or a missing field: undefined and 0 are falsy
FalsyNumber(x) == x = Null \/ x = Some(0)

\* x || dflt
OrElse(x, dflt) == IF Falsy(x) THEN dflt ELSE x

\* broadcastTradeSignal: db.logTrade(trade.licenseKey || 'master', trade.symbol || 'UNKNOWN', ...)
BroadcastTradeRow(trade) ==
  [license_key |-> OrElse(trade.licenseKey, "master"),
   symbol |-> OrElse(trade.symbol, "UNKNOWN"),
   action |-> OrElse(trade.action, "UNKNOWN"),
   volume |-> IF FalsyNumber(trade.volume) THEN Some(0) ELSE trade.volume]

\* /api/send-trade: db.logTrade(licenseKey || 'http-client', symbol, action, volume, sl, tp)
SendTradeRow(trade) ==
  [license_key |-> OrElse(trade.licenseKey, "http-client"),
   symbol |-> trade.symbol, action |-> trade.action, volume |-> trade.volume]

\* /api/send-trade: !symbol || !action || !volume
SendTradeInvalid(body) ==
  Falsy(body.symbol) \/ Falsy(body.action) \/ FalsyNumber(body.volume)

\* ------------------------------------------------------------- connections table
ConnRow(type, lic, ms) ==
  [type |-> type, license_key |-> lic, status |-> "active", last_ping |-> NowSec(ms)]

\* addConnection: existing ? UPDATE ... : INSERT ...
AddConnectionStmt(table, id) == IF id \in DOMAIN table THEN "update" ELSE "insert"

\* connection_id is UNIQUE: an INSERT of a present id is rejected by the database
AddConnectionConflict(table, stmt, id) == stmt = "insert" /\ id \in DOMAIN table

\* The statement addConnection runs, applied to the table.
AddConnectionRun(table, stmt, id, type, lic, ms) ==
  IF stmt = "insert" THEN MapSet(table, id, ConnRow(type, lic, ms))
  ELSE IF id \in DOMAIN table
       THEN [table EXCEPT ![id].status = "active", ![id].last_ping = NowSec(ms)]
       ELSE table

\* UPDATE connections SET status = 'disconnected' WHERE connection_id = ?
removeConnection(table, id) ==
  IF id \in DOMAIN table THEN [table EXCEPT ![id].status = "disconnected"] ELSE table

\* UPDATE connections SET last_ping = ? WHERE connection_id = ?
updateConnectionPing(table, id, ms) ==
  IF id \in DOMAIN table THEN [table EXCEPT ![id].last_ping = NowSec(ms)] ELSE table

\* DELETE FROM connections WHERE last_ping < ? AND status = 'active'
ReapConnections(table, cut) ==
  LET gone == {id \in DOMAIN table :
                 table[id].last_ping < cut /\ table[id].status = "active"}
  IN  [id \in DOMAIN table \ gone |-> table[id]]

\* ------------------------------------------------------------- logs table
LogMessages ==
  {"License verification failed", "License verified", "License deactivated",
   "Master registered", "Receiver registered", "Receiver rejected",
   "WebSocket message error", "WebSocket error", "Client disconnected",
   "Trade signal broadcasted", "License created", "Server shutting down"}
\* INSERT INTO logs (level, message, metadata): the table as a count per message
log(table, message) == [table EXCEPT ![message] = @ + 1]

\* ------------------------------------------------------------- state
VARIABLES
  now,        \* Date.now(), in milliseconds
  masters,    \* connections.masters: clientId -> entry
  receivers,  \* connections.receivers: clientId -> entry
  wsState,    \* readyState of each socket: "OPEN", "CLOSING", "CLOSED"
  wsClose,    \* the arguments of the server's ws.close() call on each socket
  pc,         \* where each message handler / HTTP handler is suspended
  loc,        \* the locals of each suspended handler
  closepc,    \* where the close handler of each socket is suspended
  closeFrame, \* the sockets whose peer's Close frame has been read
  licenses,   \* table licenses
  dbconns,    \* table connections
  trades,     \* table trades
  logs,       \* table logs
  httpResp,   \* the response of each HTTP request slot
  unhandled,  \* rejections that escaped a handler (unhandled promise rejections)
  lastStatus, \* the last peer-count event broadcast
  reappc,     \* where each call of the cleanup callback is suspended
  cutoff,     \* the cutoff each call of the cleanup callback computed
  sweepFailed,\* per sweep, the registered sessions whose socket was not open when it began
  dropNote,   \* the console line of the last message the dispatch dropped
  boot,       \* how far the start of the server has come; "exited" once the process ended
  errpc,      \* the db.log call the error handler of each socket left in flight
  sigpc,      \* per signal, the calls of its handler suspended on db.log and on db.close
  limiter,    \* the closure of a rate limiter: requestsPerMinute and its Map requests
  served,     \* the requests the rate limiter has answered, in order
  evLeft,     \* events from outside still to come
  touched     \* how many sockets have had an event

vars == <<now, masters, receivers, wsState, wsClose, pc, loc, closepc, licenses,
          dbconns, trades, logs, httpResp, unhandled, lastStatus, reappc, cutoff,
          sweepFailed, dropNote, boot, errpc, sigpc, limiter, served, evLeft, touched,
          closeFrame>>

\* conn: the connection_id a database call is about; stamp: the Date.now() a
\* statement's parameters were bound at, when the call was issued; expiry: the
\* expiry_date of the license being created.
NoLoc == [role |-> "", lic |-> Undefined, stmt |-> "", trade |-> NonObjectTrade,
          atInvoke |-> {}, targets |-> {}, failed |-> {}, sent |-> 0,
          conn |-> 0, stamp |-> 0, expiry |-> 0]
\* res.status(code).json({success, message, receivers})
Response(code, success, message, n) ==
  [status |-> code, success |-> success, message |-> message, receivers |-> n]
NoResp == Response(0, FALSE, "", Null)
NoStatus == [type |-> "", count |-> 0, to |-> {}]
NoClose == [code |-> 0, reason |-> ""]
PolicyViolation == 1008

\* The licenses the server starts with: the demo license, one that has expired,
\* one that expires this very second, one that was deactivated.
InitLicenses ==
  [k \in {DemoKey, "DEMO-EXPIRED", "DEMO-BOUNDARY", "DEMO-INACTIVE"} |->
     CASE k = DemoKey -> LicenseRow("active", NowSec(StartMs) + 10 * ReapTimeoutSec, Some(0))
       [] k = "DEMO-EXPIRED" -> LicenseRow("active", NowSec(StartMs) - 1, Some(0))
       [] k = "DEMO-BOUNDARY" -> LicenseRow("active", NowSec(StartMs), Some(0))
       [] OTHER -> LicenseRow("inactive", NowSec(StartMs) + 10 * ReapTimeoutSec, Some(0))]
\* the licenseKey of a register-receiver message or of a request body
LicenseInputs == {DemoKey, "DEMO-EXPIRED", "DEMO-BOUNDARY", "DEMO-INACTIVE", Undefined}
RelayLicenseInputs == {DemoKey, "DEMO-EXPIRED"}
AdmitLicenseInputs == {DemoKey, "DEMO-EXPIRED", "DEMO-INACTIVE", Undefined}
AdmissionInputs == LicenseInputs \cup {"NO-SUCH-KEY", ""}
VerifyInputs == {DemoKey, "LEGACY-KEY", "DEMO-EXPIRED", "NO-SUCH-KEY", Undefined, ""}

\* createRateLimiter(requestsPerMinute = 60): const requests = new Map()
DefaultPerMinute == 60
InitLimiter(n) == [requestsPerMinute |-> n, requests |-> EmptyMap]

\* server.js installs no rate limiter on any route: one made with the default
\* would stay as created.
NoLimiterInUse ==
  /\ limiter = InitLimiter(DefaultPerMinute)
  /\ served = <<>>

InitCommon ==
  /\ masters = EmptyMap
  /\ receivers = EmptyMap
  /\ wsState = [c \in Conns |-> "OPEN"]
  /\ wsClose = [c \in Conns |-> NoClose]
  /\ pc = [h \in Handlers |-> "idle"]
  /\ loc = [h \in Handlers |-> NoLoc]
  /\ closepc = [c \in Conns |-> "idle"]
  /\ closeFrame = {}
  /\ dbconns = EmptyMap
  /\ trades = <<>>
  /\ logs = [m \in LogMessages |-> 0]
  /\ httpResp = [h \in HttpIds |-> NoResp]
  /\ unhandled = 0
  /\ lastStatus = NoStatus
  /\ reappc = [s \in Sweeps |-> "idle"]
  /\ cutoff = [s \in Sweeps |-> 0]
  /\ sweepFailed = [s \in Sweeps |-> {}]
  /\ dropNote = ""
  /\ errpc = [c \in Conns |-> "idle"]
  /\ sigpc = [sig \in Signals |-> NoShutdown]

Init ==
  /\ InitCommon
  /\ NoLimiterInUse
  /\ boot = "ready"
  /\ now = StartMs
  /\ licenses = InitLicenses
  /\ evLeft = MaxEvents
  /\ touched = 0

\* ------------------------------------------------------------- shared steps
\* After process.exit(1), and after an unhandled promise rejection, nothing runs.
Running == boot # "exited"

\* A database call resolves, or rejects (an event from outside).
DbOutcomes == IF evLeft > 0 THEN {TRUE, FALSE} ELSE {TRUE}
Fault(ok) ==
  /\ Running
  /\ evLeft' = IF ok THEN evLeft ELSE evLeft - 1
  /\ UNCHANGED touched

\* A promise that rejects with nothing awaiting it inside a try block: node
\* raises the unhandled rejection as an uncaught exception and the process ends.
Escapes(ok) ==
  /\ unhandled' = IF ok THEN unhandled ELSE unhandled + 1
  /\ boot' = IF ok THEN boot ELSE "exited"

\* ws.send() can only throw on a socket that is no longer open.
Fallible(ids) == {c \in ids : wsState[c] # "OPEN"}

\* ws.close(code, reason): starts the closing handshake of an open socket
WsCloseCall(c, reason) ==
  /\ wsClose' = [wsClose EXCEPT ![c] = [code |-> PolicyViolation, reason |-> reason]]
  /\ wsState' = [wsState EXCEPT ![c] = IF @ = "OPEN" THEN "CLOSING" ELSE @]

StatusEvent_everyone(type, count, map) ==
  [type |-> type, count |-> count, to |-> {c \in Conns : wsState[c] = "OPEN"}]

\* broadcastToReceivers / broadcastToMasters: sent to the open sockets of the map
StatusEvent(type, count, map) ==
  [type |-> type, count |-> count, to |-> {c \in DOMAIN map : wsState[c] = "OPEN"}]

Goto(h, label, locals) ==
  /\ pc' = [pc EXCEPT ![h] = label]
  /\ loc' = [loc EXCEPT ![h] = locals]

\* An exception in a handler: the message handler's catch block awaits
\* db.log('error', ...); an HTTP handler's catch block answers 500.
Raise(h) ==
  IF h \in WsHandlers
  THEN Goto(h, "catch_log", NoLoc) /\ UNCHANGED httpResp
  ELSE /\ Goto(h, "idle", NoLoc)
       /\ httpResp' = [httpResp EXCEPT ![h] = Response(500, FALSE, "Server error", Null)]

\* An event on socket c.  Sockets that have had no event yet are interchangeable
\* (clientId is a fresh uuid), so the next one to have its first event is the lowest.
Spend(c) ==
  /\ Running
  /\ evLeft > 0
  /\ c <= touched + 1
  /\ evLeft' = evLeft - 1
  /\ touched' = IF c > touched THEN c ELSE touched

\* An event that belongs to no socket: an HTTP request, a timer.
SpendOne ==
  /\ Running
  /\ evLeft > 0
  /\ evLeft' = evLeft - 1
  /\ UNCHANGED touched

\* ws.on('message') is entered for every message the socket delivers: on an
\* open socket and on one the server has called ws.close() on and whose close
\* event is still to come, whether or not an earlier handler of the socket is
\* suspended.  A socket that raised an error, or whose peer has sent its Close
\* frame, is read no further.  The message takes the lowest handler of its
\* socket that is not running.
CanReceive(h) ==
  /\ wsState[Sock(h)] # "CLOSED"
  /\ errpc[Sock(h)] = "idle"
  /\ Sock(h) \notin closeFrame
  /\ pc[h] = "idle"
  /\ \A g \in WsHandlers : Sock(g) = Sock(h) /\ g < h => pc[g] # "idle"

\* ------------------------------------------------------------- register-master
\* case 'register-master': registerMaster up to its first await.
RecvRegisterMaster(h, apiKey) ==
  /\ CanReceive(h)
  /\ Spend(Sock(h))
  /\ IF ~verifyAPIKey(apiKey)
     THEN /\ WsCloseCall(Sock(h), "Invalid API key")
          /\ UNCHANGED <<masters, pc, loc>>
     ELSE /\ masters' = MapSet(masters, Sock(h), [connected |-> now, lastPing |-> Null])
          /\ Goto(h, "ac_get", [NoLoc EXCEPT !.role = "master", !.conn = Sock(h)])
          /\ UNCHANGED <<wsState, wsClose>>
  /\ UNCHANGED <<now, receivers, closepc, licenses, dbconns, trades, logs, httpResp,
                 unhandled, lastStatus, reappc, cutoff, sweepFailed, dropNote, boot,
                 errpc, limiter, served, sigpc, closeFrame>>

\* addConnection: getConnectionById resolves and the UPDATE or INSERT is issued,
\* its last_ping parameter bound to Math.floor(Date.now() / 1000) now.
AddConnectionLookup(h) ==
  /\ pc[h] = "ac_get"
  /\ \E ok \in DbOutcomes :
       /\ Fault(ok)
       /\ IF ok
          THEN Goto(h, "ac_run",
                    [loc[h] EXCEPT !.stmt = AddConnectionStmt(dbconns, loc[h].conn),
                                   !.stamp = now])
               /\ UNCHANGED httpResp
          ELSE Raise(h)
  /\ UNCHANGED <<now, masters, receivers, wsState, wsClose, closepc, licenses, dbconns,
                 trades, logs, unhandled, lastStatus, reappc, cutoff, sweepFailed,
                 dropNote, boot, errpc, limiter, served, sigpc, closeFrame>>

\* res.json({success: true, message: 'Master registered successfully', ...})
RegisterMasterResponse == Response(200, TRUE, "Master registered successfully", Null)

AddConnectionDone_rollback(h) ==
  /\ pc[h] = "ac_run"
  /\ \E ok \in DbOutcomes :
       /\ Fault(ok)
       /\ IF ok /\ ~AddConnectionConflict(dbconns, loc[h].stmt, loc[h].conn)
          THEN /\ dbconns' = AddConnectionRun(dbconns, loc[h].stmt, loc[h].conn,
                                              loc[h].role, loc[h].lic, loc[h].stamp)
               /\ IF h \in HttpIds
                  THEN /\ Goto(h, "idle", NoLoc)
                       /\ httpResp' = [httpResp EXCEPT ![h] = RegisterMasterResponse]
                  ELSE Goto(h, "reg_log", loc[h]) /\ UNCHANGED httpResp
               /\ UNCHANGED <<masters, receivers>>
          ELSE /\ Raise(h)
               /\ masters' = IF loc[h].role = "master" THEN MapDelete(masters, loc[h].conn)
                             ELSE masters
               /\ receivers' = IF loc[h].role = "receiver"
                               THEN MapDelete(receivers, loc[h].conn) ELSE receivers
               /\ UNCHANGED dbconns
  /\ UNCHANGED <<now, wsState, wsClose, closepc, licenses, trades, logs, unhandled,
                 lastStatus, reappc, cutoff, sweepFailed, dropNote, boot, errpc,
                 limiter, served, sigpc, closeFrame>>

\* addConnection: the UPDATE or INSERT completes.  registerMaster and
\* registerReceiver go on to db.log('info', '... registered');
\* /api/register-master answers.
AddConnectionDone(h) ==
  /\ pc[h] = "ac_run"
  /\ \E ok \in DbOutcomes :
       /\ Fault(ok)
       /\ IF ok /\ ~AddConnectionConflict(dbconns, loc[h].stmt, loc[h].conn)
          THEN /\ dbconns' = AddConnectionRun(dbconns, loc[h].stmt, loc[h].conn,
                                              loc[h].role, loc[h].lic, loc[h].stamp)
               /\ IF h \in HttpIds
                  THEN /\ Goto(h, "idle", NoLoc)
                       /\ httpResp' = [httpResp EXCEPT ![h] = RegisterMasterResponse]
                  ELSE Goto(h, "reg_log", loc[h]) /\ UNCHANGED httpResp
          ELSE Raise(h) /\ UNCHANGED dbconns
  /\ UNCHANGED <<now, masters, receivers, wsState, wsClose, closepc, licenses, trades,
                 logs, unhandled, lastStatus, reappc, cutoff, sweepFailed, dropNote,
                 boot, errpc, limiter, served, sigpc, closeFrame>>

\* The 'registered' log entry is written; the other role is told the new count.
RegisteredNotify(h) ==
  /\ pc[h] = "reg_log"
  /\ \E ok \in DbOutcomes :
       /\ Fault(ok)
       /\ IF ok
          THEN /\ logs' = log(logs, IF loc[h].role = "master" THEN "Master registered"
                                    ELSE "Receiver registered")
               /\ lastStatus' =
                    IF loc[h].role = "master"
                    THEN StatusEvent("connection-update", Cardinality(DOMAIN masters), receivers)
                    ELSE StatusEvent("receiver-update", Cardinality(DOMAIN receivers), masters)
               /\ Goto(h, "idle", NoLoc)
               /\ UNCHANGED httpResp
          ELSE Raise(h) /\ UNCHANGED <<logs, lastStatus>>
  /\ UNCHANGED <<now, masters, receivers, wsState, wsClose, closepc, licenses, dbconns,
                 trades, unhandled, reappc, cutoff, sweepFailed, dropNote, boot, errpc,
                 limiter, served, sigpc, closeFrame>>

\* The catch block of ws.on('message'): await db.log('error', 'WebSocket message
\* error').  Its rejection leaves the handler with nothing to catch it.
CatchLogged(h) ==
  /\ pc[h] = "catch_log"
  /\ \E ok \in DbOutcomes :
       /\ Fault(ok)
       /\ logs' = IF ok THEN log(logs, "WebSocket message error") ELSE logs
       /\ Escapes(ok)
  /\ Goto(h, "idle", NoLoc)
  /\ UNCHANGED <<now, masters, receivers, wsState, wsClose, closepc, licenses, dbconns,
                 trades, httpResp, lastStatus, reappc, cutoff, sweepFailed, dropNote,
                 errpc, limiter, served, sigpc, closeFrame>>

\* ------------------------------------------------------------- register-receiver
\* case 'register-receiver': registerReceiver up to await db.getLicense
RecvRegisterReceiver(h, licenseKey) ==
  /\ CanReceive(h)
  /\ Spend(Sock(h))
  /\ Goto(h, "rr_get", [NoLoc EXCEPT !.role = "receiver", !.lic = licenseKey,
                                     !.conn = Sock(h)])
  /\ UNCHANGED <<now, masters, receivers, wsState, wsClose, closepc, licenses, dbconns,
                 trades, logs, httpResp, unhandled, lastStatus, reappc, cutoff,
                 sweepFailed, dropNote, boot, errpc, limiter, served, sigpc,
                 closeFrame>>

RegisterReceiverDecide_counting(h) ==
  /\ pc[h] = "rr_get"
  /\ \E ok \in DbOutcomes :
       /\ Fault(ok)
       /\ IF ~ok
          THEN Raise(h) /\ UNCHANGED <<receivers, wsState, wsClose, licenses>>
          ELSE IF WsLicenseRejected(getLicense(licenses, loc[h].lic), now)
          THEN /\ WsCloseCall(Sock(h), "Invalid or expired license")
               /\ Goto(h, "rr_rejlog", loc[h])
               /\ UNCHANGED <<receivers, httpResp, licenses>>
          ELSE /\ receivers' = MapSet(receivers, Sock(h),
                                 [licenseKey |-> loc[h].lic, connected |-> now,
                                  lastPing |-> Null])
               /\ licenses' = updateLicenseVerified(licenses, loc[h].lic, now)
               /\ Goto(h, "ac_get", loc[h])
               /\ UNCHANGED <<wsState, wsClose, httpResp>>
  /\ UNCHANGED <<now, masters, closepc, dbconns, trades, logs, unhandled,
                 lastStatus, reappc, cutoff, sweepFailed, dropNote, boot, errpc,
                 limiter, served, sigpc, closeFrame>>

\* registerReceiver after the license lookup: reject and close, or add the session.
RegisterReceiverDecide(h) ==
  /\ pc[h] = "rr_get"
  /\ \E ok \in DbOutcomes :
       /\ Fault(ok)
       /\ IF ~ok
          THEN Raise(h) /\ UNCHANGED <<receivers, wsState, wsClose>>
          ELSE IF WsLicenseRejected(getLicense(licenses, loc[h].lic), now)
          THEN /\ WsCloseCall(Sock(h), "Invalid or expired license")
               /\ Goto(h, "rr_rejlog", loc[h])
               /\ UNCHANGED <<receivers, httpResp>>
          ELSE /\ receivers' = MapSet(receivers, Sock(h),
                                 [licenseKey |-> loc[h].lic, connected |-> now,
                                  lastPing |-> Null])
               /\ Goto(h, "ac_get", loc[h])
               /\ UNCHANGED <<wsState, wsClose, httpResp>>
  /\ UNCHANGED <<now, masters, closepc, licenses, dbconns, trades, logs, unhandled,
                 lastStatus, reappc, cutoff, sweepFailed, dropNote, boot, errpc,
                 limiter, served, sigpc, closeFrame>>

\* registerReceiver: await db.log('warn', 'Receiver rejected') completes; return.
RejectionLogged(h) ==
  /\ pc[h] = "rr_rejlog"
  /\ \E ok \in DbOutcomes :
       /\ Fault(ok)
       /\ IF ok
          THEN /\ logs' = log(logs, "Receiver rejected")
               /\ Goto(h, "idle", NoLoc)
               /\ UNCHANGED httpResp
          ELSE Raise(h) /\ UNCHANGED logs
  /\ UNCHANGED <<now, masters, receivers, wsState, wsClose, closepc, licenses, dbconns,
                 trades, unhandled, lastStatus, reappc, cutoff, sweepFailed, dropNote,
                 boot, errpc, limiter, served, sigpc, closeFrame>>

\* ------------------------------------------------------------- trade-signal
FanOutTargets_open(map) == {c \in DOMAIN map : wsState[c] = "OPEN"}

FanOutTargets_licensed(map) ==
  {c \in DOMAIN map : ~WsLicenseRejected(getLicense(licenses, map[c].licenseKey), now)}

\* connections.receivers.forEach: every entry holds a socket, so every entry is tried
FanOutTargets(map) == DOMAIN map

\* let sent = 0; ... receiver.ws.send(message); sent++ (skipped when send throws)
FanOutSent(targets, failed) == Cardinality(targets \ failed)

\* case 'trade-signal': only an object trade enters broadcastTradeSignal, which
\* awaits db.logTrade first.
RecvTradeSignal(h, trade) ==
  /\ CanReceive(h)
  /\ Spend(Sock(h))
  /\ IF trade.isObject
     THEN Goto(h, "bc_trade", [NoLoc EXCEPT !.trade = trade,
                                            !.atInvoke = DOMAIN receivers,
                                            !.conn = Sock(h)])
     ELSE UNCHANGED <<pc, loc>>
  /\ UNCHANGED <<now, masters, receivers, wsState, wsClose, closepc, licenses, dbconns,
                 trades, logs, httpResp, unhandled, lastStatus, reappc, cutoff,
                 sweepFailed, dropNote, boot, errpc, limiter, served, sigpc,
                 closeFrame>>

BroadcastFanOut_abort(h) ==
  /\ pc[h] = "bc_trade"
  /\ \E ok \in DbOutcomes :
       /\ Fault(ok)
       /\ trades' = IF ok THEN Append(trades, BroadcastTradeRow(loc[h].trade)) ELSE trades
  /\ \E failed \in SUBSET Fallible(FanOutTargets(receivers)) :
       IF failed = {}
       THEN /\ Goto(h, "bc_log",
                    [loc[h] EXCEPT !.targets = FanOutTargets(receivers), !.failed = {},
                                   !.sent = FanOutSent(FanOutTargets(receivers), {})])
            /\ UNCHANGED httpResp
       ELSE \E first \in failed :
              /\ pc' = [pc EXCEPT ![h] = IF h \in WsHandlers THEN "catch_log" ELSE "idle"]
              /\ loc' = [loc EXCEPT ![h] = [loc[h] EXCEPT !.targets = {first},
                                                          !.failed = {first}]]
              /\ UNCHANGED httpResp
  /\ UNCHANGED <<now, masters, receivers, wsState, wsClose, closepc, licenses, dbconns,
                 logs, unhandled, lastStatus, reappc, cutoff, sweepFailed, dropNote,
                 boot, errpc, limiter, served, sigpc, closeFrame>>

BroadcastFanOut_stepwise(h) ==
  /\ pc[h] = "bc_trade"
  /\ \E ok \in DbOutcomes :
       /\ Fault(ok)
       /\ trades' = IF ok /\ loc[h].targets = {}
                    THEN Append(trades, BroadcastTradeRow(loc[h].trade)) ELSE trades
  /\ LET rest == FanOutTargets(receivers) \ loc[h].targets
     IN  IF Cardinality(rest) > 1
         THEN \E r \in rest :
                Goto(h, "bc_trade", [loc[h] EXCEPT !.targets = @ \cup {r},
                                                   !.sent = @ + 1])
         ELSE Goto(h, "bc_log", [loc[h] EXCEPT !.targets = @ \cup rest,
                                               !.sent = @ + Cardinality(rest)])
  /\ UNCHANGED <<now, masters, receivers, wsState, wsClose, closepc, licenses, dbconns,
                 logs, httpResp, unhandled, lastStatus, reappc, cutoff, sweepFailed,
                 dropNote, boot, errpc, limiter, served, sigpc, closeFrame>>

\* broadcastTradeSignal after db.logTrade (a rejection is caught and logged to the
\* console): the fan-out over connections.receivers, each send in its own try/catch,
\* then await db.log('info', 'Trade signal broadcasted', {receivers: sent}).
BroadcastFanOut(h) ==
  /\ pc[h] = "bc_trade"
  /\ \E ok \in DbOutcomes :
       /\ Fault(ok)
       /\ trades' = IF ok THEN Append(trades, BroadcastTradeRow(loc[h].trade)) ELSE trades
  /\ \E failed \in SUBSET Fallible(FanOutTargets(receivers)) :
       Goto(h, "bc_log",
            [loc[h] EXCEPT !.targets = FanOutTargets(receivers), !.failed = failed,
                           !.sent = FanOutSent(FanOutTargets(receivers), failed)])
  /\ UNCHANGED <<now, masters, receivers, wsState, wsClose, closepc, licenses, dbconns,
                 logs, httpResp, unhandled, lastStatus, reappc, cutoff, sweepFailed,
                 dropNote, boot, errpc, limiter, served, sigpc, closeFrame>>

\* res.json({success: true, ..., receivers: connections.receivers.size})
SendTradeResponse(map) ==
  Response(200, TRUE, "Trade broadcasted successfully", Some(Cardinality(DOMAIN map)))

\* broadcastTradeSignal returns once db.log resolves: the message handler ends;
\* /api/send-trade answers.  A rejection of db.log leaves broadcastTradeSignal.
BroadcastLogged(h) ==
  /\ pc[h] = "bc_log"
  /\ \E ok \in DbOutcomes :
       /\ Fault(ok)
       /\ IF ok
          THEN /\ logs' = log(logs, "Trade signal broadcasted")
               /\ Goto(h, "idle", NoLoc)
               /\ httpResp' = IF h \in HttpIds
                              THEN [httpResp EXCEPT ![h] = SendTradeResponse(receivers)]
                              ELSE httpResp
          ELSE Raise(h) /\ UNCHANGED logs
  /\ UNCHANGED <<now, masters, receivers, wsState, wsClose, closepc, licenses, dbconns,
                 trades, unhandled, lastStatus, reappc, cutoff, sweepFailed, dropNote,
                 boot, errpc, limiter, served, sigpc, closeFrame>>

\* ------------------------------------------------------------- ping and the rest
\* case 'ping': handlePing up to await db.updateConnectionPing, whose last_ping
\* parameter is bound to Math.floor(Date.now() / 1000) now.
RecvPing(h) ==
  /\ CanReceive(h)
  /\ Spend(Sock(h))
  /\ Goto(h, "pg_run", [NoLoc EXCEPT !.conn = Sock(h), !.stamp = now])
  /\ UNCHANGED <<now, masters, receivers, wsState, wsClose, closepc, licenses, dbconns,
                 trades, logs, httpResp, unhandled, lastStatus, reappc, cutoff,
                 sweepFailed, dropNote, boot, errpc, limiter, served, sigpc,
                 closeFrame>>

\* master.lastPing = Date.now() / receiver.lastPing = Date.now(), for a present id
Touch(map, id, ms) ==
  IF id \in DOMAIN map THEN [map EXCEPT ![id].lastPing = Some(ms)] ELSE map

\* handlePing after the UPDATE: touch the registry entries with the Date.now()
\* of this moment, then ws.send(pong), which may throw once the socket is no
\* longer open.
PingDone(h) ==
  /\ pc[h] = "pg_run"
  /\ \E ok \in DbOutcomes :
       /\ Fault(ok)
       /\ IF ok
          THEN /\ dbconns' = updateConnectionPing(dbconns, loc[h].conn, loc[h].stamp)
               /\ masters' = Touch(masters, Sock(h), now)
               /\ receivers' = Touch(receivers, Sock(h), now)
               /\ \E thrown \in (IF Fallible({Sock(h)}) # {} THEN {TRUE, FALSE}
                                 ELSE {FALSE}) :
                    IF thrown THEN Raise(h)
                    ELSE Goto(h, "idle", NoLoc) /\ UNCHANGED httpResp
          ELSE Raise(h) /\ UNCHANGED <<dbconns, masters, receivers>>
  /\ UNCHANGED <<now, wsState, wsClose, closepc, licenses, trades, logs, unhandled,
                 lastStatus, reappc, cutoff, sweepFailed, dropNote, boot, errpc,
                 limiter, served, sigpc, closeFrame>>

\* console.log('Invalid message format from client:', ...) for a JSON value that
\* is no object, console.log('Unknown message type:', ...) in the default case
DropNote(what, before) ==
  IF what = "not-an-object" THEN "Invalid message format"
  ELSE IF what = "unknown-type" THEN "Unknown message type"
  ELSE before

RecvOther_close(h, what) ==
  /\ CanReceive(h)
  /\ Spend(Sock(h))
  /\ IF what = "not-json" THEN Raise(h) /\ UNCHANGED <<wsState, wsClose>>
     ELSE WsCloseCall(Sock(h), "Unsupported message") /\ UNCHANGED <<pc, loc, httpResp>>
  /\ dropNote' = DropNote(what, dropNote)
  /\ UNCHANGED <<now, masters, receivers, closepc, licenses, dbconns, trades, logs,
                 unhandled, lastStatus, reappc, cutoff, sweepFailed, boot, errpc,
                 limiter, served, sigpc, closeFrame>>

\* A message that is dropped: an unknown type or a JSON value that is no object
\* returns at once; text that is no JSON makes JSON.parse throw.
OtherInputs == {"unknown-type", "not-an-object", "not-json"}
RecvOther(h, what) ==
  /\ CanReceive(h)
  /\ Spend(Sock(h))
  /\ IF what = "not-json" THEN Raise(h) ELSE UNCHANGED <<pc, loc, httpResp>>
  /\ dropNote' = DropNote(what, dropNote)
  /\ UNCHANGED <<now, masters, receivers, wsState, wsClose, closepc, licenses, dbconns,
                 trades, logs, unhandled, lastStatus, reappc, cutoff, sweepFailed,
                 boot, errpc, limiter, served, sigpc, closeFrame>>

\* ------------------------------------------------------------- close and error
CloseStepReceiver_always(c) ==
  /\ receivers' = MapDelete(receivers, c)
  /\ closepc' = [closepc EXCEPT ![c] = "ur_run"]

\* The close handler from unregisterReceiver on: connections.receivers.delete(id),
\* and await db.removeConnection when the id was present, else the final db.log.
CloseStepReceiver(c) ==
  IF c \in DOMAIN receivers
  THEN /\ receivers' = MapDelete(receivers, c)
       /\ closepc' = [closepc EXCEPT ![c] = "ur_run"]
  ELSE /\ closepc' = [closepc EXCEPT ![c] = "cl_log"]
       /\ UNCHANGED receivers

\* The peer's Close frame is read: readyState becomes CLOSING (2) and no
\* listener of the server runs.  The socket delivers no further message; its
\* close event comes in a later turn of the event loop, and whatever runs in
\* between reads readyState 2: the status broadcasts skip the socket, the trade
\* fan-out still calls send on it.
CloseFrame(c) ==
  /\ wsState[c] # "CLOSED"
  /\ c \notin closeFrame
  /\ errpc[c] = "idle"
  /\ Spend(c)
  /\ wsState' = [wsState EXCEPT ![c] = "CLOSING"]
  /\ closeFrame' = closeFrame \cup {c}
  /\ UNCHANGED <<now, masters, receivers, wsClose, pc, loc, closepc, licenses, dbconns,
                 trades, logs, httpResp, unhandled, lastStatus, reappc, cutoff,
                 sweepFailed, dropNote, boot, errpc, limiter, served, sigpc>>

\* ws.on('close'): the socket is CLOSED (3) when the event is emitted, after the
\* closing handshake (readyState was 2) or at once when the connection is lost
\* (readyState was 1 in every turn before).  unregisterMaster:
\* connections.masters.delete(id), and await db.removeConnection when the id
\* was present; else on to unregisterReceiver.
CloseEvent(c) ==
  /\ wsState[c] # "CLOSED"
  /\ closepc[c] = "idle"
  /\ Spend(c)
  /\ wsState' = [wsState EXCEPT ![c] = "CLOSED"]
  /\ IF c \in DOMAIN masters
     THEN /\ masters' = MapDelete(masters, c)
          /\ closepc' = [closepc EXCEPT ![c] = "um_run"]
          /\ UNCHANGED receivers
     ELSE CloseStepReceiver(c) /\ UNCHANGED masters
  /\ UNCHANGED <<now, wsClose, pc, loc, licenses, dbconns, trades, logs, httpResp,
                 unhandled, lastStatus, reappc, cutoff, sweepFailed, dropNote, boot,
                 errpc, limiter, served, sigpc, closeFrame>>

\* unregisterMaster after db.removeConnection: tell the receivers, then
\* unregisterReceiver.  A rejection leaves the close handler, uncaught.
CloseMasterRemoved(c) ==
  /\ closepc[c] = "um_run"
  /\ \E ok \in DbOutcomes :
       /\ Fault(ok)
       /\ Escapes(ok)
       /\ IF ok
          THEN /\ dbconns' = removeConnection(dbconns, c)
               /\ lastStatus' = StatusEvent("connection-update",
                                            Cardinality(DOMAIN masters), receivers)
               /\ CloseStepReceiver(c)
          ELSE /\ closepc' = [closepc EXCEPT ![c] = "done"]
               /\ UNCHANGED <<dbconns, lastStatus, receivers>>
  /\ UNCHANGED <<now, masters, wsState, wsClose, pc, loc, licenses, trades, logs,
                 httpResp, reappc, cutoff, sweepFailed, dropNote, errpc, limiter, served, sigpc,
                 closeFrame>>

\* unregisterReceiver after db.removeConnection: tell the masters, then the
\* final await db.log.  A rejection leaves the close handler, uncaught.
CloseReceiverRemoved(c) ==
  /\ closepc[c] = "ur_run"
  /\ \E ok \in DbOutcomes :
       /\ Fault(ok)
       /\ Escapes(ok)
       /\ IF ok
          THEN /\ dbconns' = removeConnection(dbconns, c)
               /\ lastStatus' = StatusEvent("receiver-update",
                                            Cardinality(DOMAIN receivers), masters)
               /\ closepc' = [closepc EXCEPT ![c] = "cl_log"]
          ELSE /\ closepc' = [closepc EXCEPT ![c] = "done"]
               /\ UNCHANGED <<dbconns, lastStatus>>
  /\ UNCHANGED <<now, masters, receivers, wsState, wsClose, pc, loc, licenses, trades,
                 logs, httpResp, reappc, cutoff, sweepFailed, dropNote, errpc, limiter,
                 served, sigpc, closeFrame>>

\* await db.log('info', 'Client disconnected') ends the close handler.
CloseLogged(c) ==
  /\ closepc[c] = "cl_log"
  /\ \E ok \in DbOutcomes :
       /\ Fault(ok)
       /\ Escapes(ok)
       /\ logs' = IF ok THEN log(logs, "Client disconnected") ELSE logs
  /\ closepc' = [closepc EXCEPT ![c] = "done"]
  /\ UNCHANGED <<now, masters, receivers, wsState, wsClose, pc, loc, licenses, dbconns,
                 trades, httpResp, lastStatus, reappc, cutoff, sweepFailed, dropNote,
                 errpc, limiter, served, sigpc, closeFrame>>

\* ws.on('error'), raised once by a socket that has failed: db.log('error',
\* 'WebSocket error') is issued and not awaited, and the handler returns.
SocketError(c) ==
  /\ wsState[c] # "CLOSED"
  /\ errpc[c] = "idle"
  /\ Spend(c)
  /\ wsState' = [wsState EXCEPT ![c] = "CLOSING"]
  /\ errpc' = [errpc EXCEPT ![c] = "el_log"]
  /\ UNCHANGED <<now, masters, receivers, wsClose, pc, loc, closepc, licenses, dbconns,
                 trades, logs, httpResp, unhandled, lastStatus, reappc, cutoff,
                 sweepFailed, dropNote, boot, limiter, served, sigpc, closeFrame>>

\* The INSERT the error handler left in flight settles: the row is written, or
\* the promise rejects with nothing to catch it.
SocketErrorLogged(c) ==
  /\ errpc[c] = "el_log"
  /\ \E ok \in DbOutcomes :
       /\ Fault(ok)
       /\ Escapes(ok)
       /\ logs' = IF ok THEN log(logs, "WebSocket error") ELSE logs
  /\ errpc' = [errpc EXCEPT ![c] = "done"]
  /\ UNCHANGED <<now, masters, receivers, wsState, wsClose, pc, loc, closepc, licenses,
                 dbconns, trades, httpResp, lastStatus, reappc, cutoff, sweepFailed,
                 dropNote, limiter, served, sigpc, closeFrame>>

\* ------------------------------------------------------------- POST /api/send-trade
\* An HTTP request takes the lowest free slot.
CanServe(h) ==
  /\ pc[h] = "idle"
  /\ \A g \in HttpIds : g < h => pc[g] # "idle"

\* The handler up to await db.logTrade; a body without symbol, action or volume
\* is answered 400.
HttpSendTrade(h, body) ==
  /\ CanServe(h)
  /\ SpendOne
  /\ IF SendTradeInvalid(body)
     THEN /\ httpResp' = [httpResp EXCEPT ![h] =
                            Response(400, FALSE, "Missing required trade data", Null)]
          /\ UNCHANGED <<pc, loc>>
     ELSE /\ httpResp' = [httpResp EXCEPT ![h] = NoResp]
          /\ Goto(h, "st_trade", [NoLoc EXCEPT !.trade = body])
  /\ UNCHANGED <<now, masters, receivers, wsState, wsClose, closepc, licenses, dbconns,
                 trades, logs, unhandled, lastStatus, reappc, cutoff, sweepFailed, dropNote, boot,
                 errpc, limiter, served, sigpc, closeFrame>>

\* db.logTrade resolved: broadcastTradeSignal(tradeSignal) is entered and awaits
\* its own db.logTrade.  A rejection is answered 500.
SendTradeLogged(h) ==
  /\ pc[h] = "st_trade"
  /\ \E ok \in DbOutcomes :
       /\ Fault(ok)
       /\ IF ok
          THEN /\ trades' = Append(trades, SendTradeRow(loc[h].trade))
               /\ Goto(h, "bc_trade", [loc[h] EXCEPT !.atInvoke = DOMAIN receivers])
               /\ UNCHANGED httpResp
          ELSE Raise(h) /\ UNCHANGED trades
  /\ UNCHANGED <<now, masters, receivers, wsState, wsClose, closepc, licenses, dbconns,
                 logs, unhandled, lastStatus, reappc, cutoff, sweepFailed, dropNote, boot,
                 errpc, limiter, served, sigpc, closeFrame>>

\* ------------------------------------------------------------- POST /api/verify-license
\* The handler up to await db.getLicense; a body without licenseKey is answered 400.
HttpVerifyLicense(h, licenseKey) ==
  /\ CanServe(h)
  /\ SpendOne
  /\ IF Falsy(licenseKey)
     THEN /\ httpResp' = [httpResp EXCEPT ![h] =
                            Response(400, FALSE, "License key required", Null)]
          /\ UNCHANGED <<pc, loc>>
     ELSE /\ httpResp' = [httpResp EXCEPT ![h] = NoResp]
          /\ Goto(h, "vl_get", [NoLoc EXCEPT !.lic = licenseKey])
  /\ UNCHANGED <<now, masters, receivers, wsState, wsClose, closepc, licenses, dbconns,
                 trades, logs, unhandled, lastStatus, reappc, cutoff, sweepFailed, dropNote, boot,
                 errpc, limiter, served, sigpc, closeFrame>>

\* The license row is back: not found -> log and answer; inactive or expired ->
\* answer; else await db.updateLicenseVerified, whose last_verified parameter is
\* bound to Math.floor(Date.now() / 1000) now.
VerifyDecide(h) ==
  /\ pc[h] = "vl_get"
  /\ \E ok \in DbOutcomes :
       /\ Fault(ok)
       /\ IF ~ok THEN Raise(h)
          ELSE LET answer == VerifyLicenseAnswer(getLicense(licenses, loc[h].lic), now)
               IN  IF answer = "Invalid license"
                   THEN Goto(h, "vl_faillog", loc[h]) /\ UNCHANGED httpResp
                   ELSE IF answer = "verified"
                   THEN Goto(h, "vl_upd", [loc[h] EXCEPT !.stamp = now])
                        /\ UNCHANGED httpResp
                   ELSE /\ Goto(h, "idle", NoLoc)
                        /\ httpResp' = [httpResp EXCEPT ![h] =
                                          Response(200, FALSE, answer, Null)]
  /\ UNCHANGED <<now, masters, receivers, wsState, wsClose, closepc, licenses, dbconns,
                 trades, logs, unhandled, lastStatus, reappc, cutoff, sweepFailed, dropNote, boot,
                 errpc, limiter, served, sigpc, closeFrame>>

\* await db.log('info', 'License verification failed'); res.json({success: false})
VerifyFailLogged(h) ==
  /\ pc[h] = "vl_faillog"
  /\ \E ok \in DbOutcomes :
       /\ Fault(ok)
       /\ IF ok
          THEN /\ logs' = log(logs, "License verification failed")
               /\ Goto(h, "idle", NoLoc)
               /\ httpResp' = [httpResp EXCEPT ![h] =
                                 Response(200, FALSE, "Invalid license", Null)]
          ELSE Raise(h) /\ UNCHANGED logs
  /\ UNCHANGED <<now, masters, receivers, wsState, wsClose, closepc, licenses, dbconns,
                 trades, unhandled, lastStatus, reappc, cutoff, sweepFailed, dropNote, boot,
                 errpc, limiter, served, sigpc, closeFrame>>

\* await db.updateLicenseVerified(licenseKey) completes; await db.log is issued.
VerifyUpdated(h) ==
  /\ pc[h] = "vl_upd"
  /\ \E ok \in DbOutcomes :
       /\ Fault(ok)
       /\ IF ok
          THEN /\ licenses' = updateLicenseVerified(licenses, loc[h].lic, loc[h].stamp)
               /\ Goto(h, "vl_log", loc[h])
               /\ UNCHANGED httpResp
          ELSE Raise(h) /\ UNCHANGED licenses
  /\ UNCHANGED <<now, masters, receivers, wsState, wsClose, closepc, dbconns, trades,
                 logs, unhandled, lastStatus, reappc, cutoff, sweepFailed, dropNote, boot,
                 errpc, limiter, served, sigpc, closeFrame>>

\* await db.log('info', 'License verified'); res.json({success: true, active: true})
VerifyLogged(h) ==
  /\ pc[h] = "vl_log"
  /\ \E ok \in DbOutcomes :
       /\ Fault(ok)
       /\ IF ok
          THEN /\ logs' = log(logs, "License verified")
               /\ Goto(h, "idle", NoLoc)
               /\ httpResp' = [httpResp EXCEPT ![h] = Response(200, TRUE, "verified", Null)]
          ELSE Raise(h) /\ UNCHANGED logs
  /\ UNCHANGED <<now, masters, receivers, wsState, wsClose, closepc, licenses, dbconns,
                 trades, unhandled, lastStatus, reappc, cutoff, sweepFailed, dropNote, boot,
                 errpc, limiter, served, sigpc, closeFrame>>

\* ------------------------------------------------------------- POST /api/register-receiver
\* The handler up to await db.getLicense; a body without licenseKey is answered 400.
HttpRegisterReceiver(h, licenseKey) ==
  /\ CanServe(h)
  /\ SpendOne
  /\ IF Falsy(licenseKey)
     THEN /\ httpResp' = [httpResp EXCEPT ![h] =
                            Response(400, FALSE, "License key required", Null)]
          /\ UNCHANGED <<pc, loc>>
     ELSE /\ httpResp' = [httpResp EXCEPT ![h] = NoResp]
          /\ Goto(h, "hr_get", [NoLoc EXCEPT !.lic = licenseKey])
  /\ UNCHANGED <<now, masters, receivers, wsState, wsClose, closepc, licenses, dbconns,
                 trades, logs, unhandled, lastStatus, reappc, cutoff, sweepFailed, dropNote, boot,
                 errpc, limiter, served, sigpc, closeFrame>>

\* The license row is back: 401, or await db.getConnectionsByType('master').
HttpRegisterDecide(h) ==
  /\ pc[h] = "hr_get"
  /\ \E ok \in DbOutcomes :
       /\ Fault(ok)
       /\ IF ~ok THEN Raise(h)
          ELSE IF HttpLicenseRejected(getLicense(licenses, loc[h].lic), now)
          THEN /\ Goto(h, "idle", NoLoc)
               /\ httpResp' = [httpResp EXCEPT ![h] =
                                 Response(401, FALSE, "Invalid or expired license", Null)]
          ELSE Goto(h, "hr_masters", loc[h]) /\ UNCHANGED httpResp
  /\ UNCHANGED <<now, masters, receivers, wsState, wsClose, closepc, licenses, dbconns,
                 trades, logs, unhandled, lastStatus, reappc, cutoff, sweepFailed, dropNote, boot,
                 errpc, limiter, served, sigpc, closeFrame>>

\* The active masters are back: res.json({success: true, message: 'Receiver registered'})
HttpRegisterAnswer(h) ==
  /\ pc[h] = "hr_masters"
  /\ \E ok \in DbOutcomes :
       /\ Fault(ok)
       /\ IF ok
          THEN /\ Goto(h, "idle", NoLoc)
               /\ httpResp' = [httpResp EXCEPT ![h] =
                                 Response(200, TRUE, "Receiver registered", Null)]
          ELSE Raise(h)
  /\ UNCHANGED <<now, masters, receivers, wsState, wsClose, closepc, licenses, dbconns,
                 trades, logs, unhandled, lastStatus, reappc, cutoff, sweepFailed, dropNote, boot,
                 errpc, limiter, served, sigpc, closeFrame>>

\* ------------------------------------------------------------- periodic cleanup
\* Time passes.
Tick(d) ==
  /\ SpendOne
  /\ now' = now + d
  /\ UNCHANGED <<masters, receivers, wsState, wsClose, pc, loc, closepc, licenses,
                 dbconns, trades, logs, httpResp, unhandled, lastStatus, reappc, cutoff, sweepFailed, dropNote, boot,
                 errpc, limiter, served, sigpc, closeFrame>>

\* const cutoff = Math.floor(Date.now() / 1000) - 300
ReapCutoff(ms) == NowSec(ms) - ReapTimeoutSec

\* The setInterval callback fires, whether or not an earlier call of it is
\* still suspended: the cutoff is computed and the DELETE on connections is
\* awaited.  The call takes the lowest sweep that is not running.
ReaperStart(s) ==
  /\ reappc[s] = "idle"
  /\ \A r \in Sweeps : r < s => reappc[r] # "idle"
  /\ SpendOne
  /\ cutoff' = [cutoff EXCEPT ![s] = ReapCutoff(now)]
  /\ sweepFailed' = [sweepFailed EXCEPT ![s] =
                       {c \in DOMAIN masters \cup DOMAIN receivers : wsState[c] # "OPEN"}]
  /\ reappc' = [reappc EXCEPT ![s] = "rp_conn"]
  /\ UNCHANGED <<now, masters, receivers, wsState, wsClose, pc, loc, closepc, licenses,
                 dbconns, trades, logs, httpResp, unhandled, lastStatus, dropNote, boot,
                 errpc, limiter, served, sigpc, closeFrame>>

\* The DELETE on connections of sweep s completes, with the cutoff that sweep
\* computed; the DELETE that trims logs is awaited.  A rejection is caught and
\* logged to the console.
ReaperConnectionsDeleted(s) ==
  /\ reappc[s] = "rp_conn"
  /\ \E ok \in DbOutcomes :
       /\ Fault(ok)
       /\ dbconns' = IF ok THEN ReapConnections(dbconns, cutoff[s]) ELSE dbconns
       /\ reappc' = [reappc EXCEPT ![s] = IF ok THEN "rp_logs" ELSE "idle"]
  /\ UNCHANGED <<now, masters, receivers, wsState, wsClose, pc, loc, closepc, licenses,
                 trades, logs, httpResp, unhandled, lastStatus, cutoff, sweepFailed,
                 dropNote, boot, errpc, limiter, served, sigpc, closeFrame>>

\* The DELETE that keeps the last 10,000 log rows completes (a run logs far fewer).
ReaperLogsTrimmed(s) ==
  /\ reappc[s] = "rp_logs"
  /\ \E ok \in DbOutcomes : Fault(ok)
  /\ reappc' = [reappc EXCEPT ![s] = "idle"]
  /\ UNCHANGED <<now, masters, receivers, wsState, wsClose, pc, loc, closepc, licenses,
                 dbconns, trades, logs, httpResp, unhandled, lastStatus, cutoff,
                 sweepFailed, dropNote, boot, errpc, limiter, served, sigpc,
                 closeFrame>>

\* ------------------------------------------------------------- Database.updateConnection
\* The fields of data: Null for a field data does not carry (undefined).
UpdateInputs ==
  {[license_key |-> k, last_ping |-> p] : k \in {Null, Some(DemoKey)}, p \in {Null, Some(5)}}

\* UPDATE connections SET license_key = ?, last_ping = ? WHERE connection_id = ?
\* with the fields data carries
updateConnection(table, id, data) ==
  IF id \notin DOMAIN table THEN table
  ELSE [table EXCEPT ![id] =
          [@ EXCEPT !.license_key = IF data.license_key = Null THEN @ ELSE data.license_key[1],
                    !.last_ping = IF data.last_ping = Null THEN @ ELSE data.last_ping[1]]]

\* A call of the public method db.updateConnection(connectionId, data), whose
\* values are the caller's.  With no field in data it returns without a
\* statement; else its UPDATE is served, or rejected.  No handler of server.js
\* calls the method: the step stands for a caller outside it.
DbUpdateConnection(id, data) ==
  /\ SpendOne
  /\ \E ok \in BOOLEAN :
       dbconns' = IF ok THEN updateConnection(dbconns, id, data) ELSE dbconns
  /\ UNCHANGED <<now, masters, receivers, wsState, wsClose, pc, loc, closepc, licenses,
                 trades, logs, httpResp, unhandled, lastStatus, reappc, cutoff,
                 sweepFailed, dropNote, boot, errpc, limiter, served, sigpc,
                 closeFrame>>

\* ------------------------------------------------------------- SIGTERM / SIGINT
\* process.on(sig): the handler up to await db.log('info', 'Server shutting down').
\* A signal that arrives while an earlier call is suspended starts another call.
Signal(sig) ==
  /\ SpendOne
  /\ sigpc' = [sigpc EXCEPT ![sig].log = @ + 1]
  /\ UNCHANGED <<now, masters, receivers, wsState, wsClose, pc, loc, closepc, licenses,
                 dbconns, trades, logs, httpResp, unhandled, lastStatus, reappc, cutoff,
                 sweepFailed, dropNote, boot, errpc, limiter, served, closeFrame>>

\* db.log settles: await db.close() is issued.  The handler has no try block,
\* so a rejection is an unhandled one.
ShutdownLogged(sig) ==
  /\ sigpc[sig].log > 0
  /\ \E ok \in DbOutcomes :
       /\ Fault(ok)
       /\ Escapes(ok)
       /\ logs' = IF ok THEN log(logs, "Server shutting down") ELSE logs
       /\ sigpc' = [sigpc EXCEPT ![sig] =
                      [log |-> @.log - 1, close |-> IF ok THEN @.close + 1 ELSE @.close]]
  /\ UNCHANGED <<now, masters, receivers, wsState, wsClose, pc, loc, closepc, licenses,
                 dbconns, trades, httpResp, lastStatus, reappc, cutoff, sweepFailed,
                 dropNote, errpc, limiter, served, closeFrame>>

\* db.close() settles: process.exit(0); a rejection is an unhandled one.  The
\* process ends either way.
ShutdownClosed(sig) ==
  /\ sigpc[sig].close > 0
  /\ \E ok \in DbOutcomes :
       /\ Fault(ok)
       /\ unhandled' = IF ok THEN unhandled ELSE unhandled + 1
  /\ boot' = "exited"
  /\ sigpc' = [sigpc EXCEPT ![sig].close = @ - 1]
  /\ UNCHANGED <<now, masters, receivers, wsState, wsClose, pc, loc, closepc, licenses,
                 dbconns, trades, logs, httpResp, lastStatus, reappc, cutoff, sweepFailed,
                 dropNote, errpc, limiter, served, closeFrame>>

\* ------------------------------------------------------------- POST /api/deactivate-license
\* A request that auth.authenticate answered 401: res.status(401).json({error})
Unauthorized(error) == Response(401, FALSE, error, Null)
TokenInputs ==
  {NoToken, Token(FALSE, NowSec(StartMs) + 3600), Token(TRUE, NowSec(StartMs) - 1),
   Token(TRUE, NowSec(StartMs) + 3600)}
AdminToken == Token(TRUE, NowSec(StartMs) + 3600)

\* auth.authenticate, then the handler up to await db.deactivateLicense.  A
\* request without a token, or with one that does not verify, is answered 401
\* by the middleware.
HttpDeactivateLicense(h, licenseKey, token) ==
  /\ CanServe(h)
  /\ SpendOne
  /\ IF authenticate(token, now) # ""
     THEN /\ httpResp' = [httpResp EXCEPT ![h] = Unauthorized(authenticate(token, now))]
          /\ UNCHANGED <<pc, loc>>
     ELSE /\ httpResp' = [httpResp EXCEPT ![h] = NoResp]
          /\ Goto(h, "dl_run", [NoLoc EXCEPT !.lic = licenseKey])
  /\ UNCHANGED <<now, masters, receivers, wsState, wsClose, closepc, licenses, dbconns,
                 trades, logs, unhandled, lastStatus, reappc, cutoff, sweepFailed,
                 dropNote, boot, errpc, limiter, served, sigpc, closeFrame>>

\* await db.deactivateLicense(licenseKey) completes; await db.log is issued.
DeactivateDone(h) ==
  /\ pc[h] = "dl_run"
  /\ \E ok \in DbOutcomes :
       /\ Fault(ok)
       /\ IF ok
          THEN /\ licenses' = deactivateLicense(licenses, loc[h].lic)
               /\ Goto(h, "dl_log", loc[h])
               /\ UNCHANGED httpResp
          ELSE Raise(h) /\ UNCHANGED licenses
  /\ UNCHANGED <<now, masters, receivers, wsState, wsClose, closepc, dbconns, trades,
                 logs, unhandled, lastStatus, reappc, cutoff, sweepFailed, dropNote,
                 boot, errpc, limiter, served, sigpc, closeFrame>>

\* await db.log('info', 'License deactivated'); res.json({success: true})
DeactivateLogged(h) ==
  /\ pc[h] = "dl_log"
  /\ \E ok \in DbOutcomes :
       /\ Fault(ok)
       /\ IF ok
          THEN /\ logs' = log(logs, "License deactivated")
               /\ Goto(h, "idle", NoLoc)
               /\ httpResp' = [httpResp EXCEPT ![h] = Response(200, TRUE, "", Null)]
          ELSE Raise(h) /\ UNCHANGED logs
  /\ UNCHANGED <<now, masters, receivers, wsState, wsClose, closepc, licenses, dbconns,
                 trades, unhandled, lastStatus, reappc, cutoff, sweepFailed, dropNote,
                 boot, errpc, limiter, served, sigpc, closeFrame>>

\* ------------------------------------------------------------- POST /api/create-license
SecPerDay == 86400
DefaultExpiryDays == 365
\* Auth.generateLicenseKey(): SP-<time>-<8 random bytes>, one of the keys it can draw
GeneratedKeys == {"SP-GENERATED-1", "SP-GENERATED-2"}
UserInputs == {Undefined, "user@example.com"}

\* INSERT INTO licenses (license_key, user_email, expiry_date): status and
\* activation_count take their defaults, last_verified is NULL
createLicense(table, licenseKey, expiryDate) ==
  MapSet(table, licenseKey, LicenseRow("active", expiryDate, Some(0)))

\* auth.authenticate, then the handler up to await db.createLicense: a body
\* without user is answered 400; else the key is generated and
\* expiryDate = Math.floor(Date.now() / 1000) + expiryDays * 24 * 60 * 60.
HttpCreateLicense(h, user, expiryDays, token, licenseKey) ==
  /\ CanServe(h)
  /\ SpendOne
  /\ IF authenticate(token, now) # ""
     THEN /\ httpResp' = [httpResp EXCEPT ![h] = Unauthorized(authenticate(token, now))]
          /\ UNCHANGED <<pc, loc>>
     ELSE IF Falsy(user)
     THEN /\ httpResp' = [httpResp EXCEPT ![h] =
                            Response(400, FALSE, "User email required", Null)]
          /\ UNCHANGED <<pc, loc>>
     ELSE /\ httpResp' = [httpResp EXCEPT ![h] = NoResp]
          /\ Goto(h, "nl_run", [NoLoc EXCEPT !.lic = licenseKey,
                                             !.expiry = NowSec(now) + expiryDays * SecPerDay])
  /\ UNCHANGED <<now, masters, receivers, wsState, wsClose, closepc, licenses, dbconns,
                 trades, logs, unhandled, lastStatus, reappc, cutoff, sweepFailed,
                 dropNote, boot, errpc, limiter, served, sigpc, closeFrame>>

\* await db.createLicense completes (license_key is UNIQUE: the INSERT of a key
\* that exists is rejected); await db.log is issued.
CreateLicenseDone(h) ==
  /\ pc[h] = "nl_run"
  /\ \E ok \in DbOutcomes :
       /\ Fault(ok)
       /\ IF ok /\ loc[h].lic \notin DOMAIN licenses
          THEN /\ licenses' = createLicense(licenses, loc[h].lic, loc[h].expiry)
               /\ Goto(h, "nl_log", loc[h])
               /\ UNCHANGED httpResp
          ELSE Raise(h) /\ UNCHANGED licenses
  /\ UNCHANGED <<now, masters, receivers, wsState, wsClose, closepc, dbconns, trades,
                 logs, unhandled, lastStatus, reappc, cutoff, sweepFailed, dropNote,
                 boot, errpc, limiter, served, sigpc, closeFrame>>

\* await db.log('info', 'License created'); res.json({success: true, licenseKey, ...})
CreateLicenseLogged(h) ==
  /\ pc[h] = "nl_log"
  /\ \E ok \in DbOutcomes :
       /\ Fault(ok)
       /\ IF ok
          THEN /\ logs' = log(logs, "License created")
               /\ Goto(h, "idle", NoLoc)
               /\ httpResp' = [httpResp EXCEPT ![h] = Response(200, TRUE, "", Null)]
          ELSE Raise(h) /\ UNCHANGED logs
  /\ UNCHANGED <<now, masters, receivers, wsState, wsClose, closepc, licenses, dbconns,
                 trades, unhandled, lastStatus, reappc, cutoff, sweepFailed, dropNote,
                 boot, errpc, limiter, served, sigpc, closeFrame>>

\* ------------------------------------------------------------- POST /api/register-master
\* `master_${accountNumber}_${Date.now()}`: the two numbers side by side
IdSpan == 10000000
MasterConnectionId(accountNumber, ms) == accountNumber * IdSpan + ms
\* the accountNumber of a request body; 0 stands for a missing or falsy one
AccountInputs == {0, 7}

\* The handler up to addConnection's await of getConnectionById; a body without
\* accountNumber is answered 400.  No key and no license is asked for.
HttpRegisterMaster(h, accountNumber) ==
  /\ CanServe(h)
  /\ SpendOne
  /\ IF accountNumber = 0
     THEN /\ httpResp' = [httpResp EXCEPT ![h] =
                            Response(400, FALSE, "Account number required", Null)]
          /\ UNCHANGED <<pc, loc>>
     ELSE /\ httpResp' = [httpResp EXCEPT ![h] = NoResp]
          /\ Goto(h, "ac_get", [NoLoc EXCEPT !.role = "master",
                                             !.conn = MasterConnectionId(accountNumber, now)])
  /\ UNCHANGED <<now, masters, receivers, wsState, wsClose, closepc, licenses, dbconns,
                 trades, logs, unhandled, lastStatus, reappc, cutoff, sweepFailed,
                 dropNote, boot, errpc, limiter, served, sigpc, closeFrame>>

\* ------------------------------------------------------------- POST /api/heartbeat
\* the connectionId of a request body; 0 stands for a missing or falsy one
NoConnectionId == 0

\* if (connectionId) await db.updateConnectionPing(connectionId), its last_ping
\* parameter bound now; without a connectionId the handler answers at once.
HttpHeartbeat(h, connectionId) ==
  /\ CanServe(h)
  /\ SpendOne
  /\ IF connectionId = NoConnectionId
     THEN /\ httpResp' = [httpResp EXCEPT ![h] = Response(200, TRUE, "", Null)]
          /\ UNCHANGED <<pc, loc>>
     ELSE /\ httpResp' = [httpResp EXCEPT ![h] = NoResp]
          /\ Goto(h, "hb_run", [NoLoc EXCEPT !.conn = connectionId, !.stamp = now])
  /\ UNCHANGED <<now, masters, receivers, wsState, wsClose, closepc, licenses, dbconns,
                 trades, logs, unhandled, lastStatus, reappc, cutoff, sweepFailed,
                 dropNote, boot, errpc, limiter, served, sigpc, closeFrame>>

\* The UPDATE completes: res.json({success: true, ...}); a rejection is
\* answered res.status(500).json({success: false}).  The Registry is not touched.
HeartbeatDone(h) ==
  /\ pc[h] = "hb_run"
  /\ \E ok \in DbOutcomes :
       /\ Fault(ok)
       /\ dbconns' = IF ok THEN updateConnectionPing(dbconns, loc[h].conn, loc[h].stamp)
                     ELSE dbconns
       /\ httpResp' = [httpResp EXCEPT ![h] =
                         IF ok THEN Response(200, TRUE, "", Null)
                         ELSE Response(500, FALSE, "", Null)]
  /\ Goto(h, "idle", NoLoc)
  /\ UNCHANGED <<now, masters, receivers, wsState, wsClose, closepc, licenses, trades,
                 logs, unhandled, lastStatus, reappc, cutoff, sweepFailed, dropNote,
                 boot, errpc, limiter, served, sigpc, closeFrame>>

\* ------------------------------------------------------------- the relay
\* The steps that resume a suspended handler.
RegistrationSteps ==
  \/ \E h \in WsHandlers : AddConnectionLookup(h)
  \/ \E h \in WsHandlers : AddConnectionDone(h)
  \/ \E h \in WsHandlers : RegisteredNotify(h)
  \/ \E h \in WsHandlers : RegisterReceiverDecide(h)
  \/ \E h \in WsHandlers : RejectionLogged(h)
  \/ \E h \in WsHandlers : CatchLogged(h)

BroadcastSteps ==
  \/ \E h \in Handlers : BroadcastFanOut(h)
  \/ \E h \in Handlers : BroadcastLogged(h)
  \/ \E h \in HttpIds : SendTradeLogged(h)

CloseSteps ==
  \/ \E c \in Conns : CloseFrame(c)
  \/ \E c \in Conns : CloseEvent(c)
  \/ \E c \in Conns : CloseMasterRemoved(c)
  \/ \E c \in Conns : CloseReceiverRemoved(c)
  \/ \E c \in Conns : CloseLogged(c)

\* The relay: every WebSocket message kind, close, socket error, /api/send-trade.
Next ==
  \/ \E h \in WsHandlers, k \in ApiKeyInputs : RecvRegisterMaster(h, k)
  \/ \E h \in WsHandlers, k \in RelayLicenseInputs : RecvRegisterReceiver(h, k)
  \/ \E h \in WsHandlers, t \in RelayTradeInputs : RecvTradeSignal(h, t)
  \/ \E h \in WsHandlers : RecvPing(h)
  \/ \E h \in WsHandlers : PingDone(h)
  \/ \E h \in WsHandlers, w \in OtherInputs : RecvOther(h, w)
  \/ \E c \in Conns : SocketError(c)
  \/ \E c \in Conns : SocketErrorLogged(c)
  \/ \E h \in HttpIds, b \in HttpTradeInputs : HttpSendTrade(h, b)
  \/ RegistrationSteps
  \/ BroadcastSteps
  \/ CloseSteps

Spec == Init /\ [][Next]_vars

\* Admission and close: the registration messages with every kind of credential.
NextAdmit ==
  \/ \E h \in WsHandlers, k \in ApiKeyInputs : RecvRegisterMaster(h, k)
  \/ \E h \in WsHandlers, k \in AdmitLicenseInputs : RecvRegisterReceiver(h, k)
  \/ RegistrationSteps
  \/ CloseSteps

SpecAdmit == Init /\ [][NextAdmit]_vars

\* The broadcast: receivers come and go while trades are sent over both entry points.
NextBroadcast ==
  \/ \E h \in WsHandlers : RecvRegisterReceiver(h, DemoKey)
  \/ \E h \in WsHandlers : RecvTradeSignal(h, MasterTrade)
  \/ \E c \in Conns : SocketError(c)
  \/ \E c \in Conns : SocketErrorLogged(c)
  \/ \E h \in HttpIds, b \in BroadcastTradeInputs : HttpSendTrade(h, b)
  \/ \E h \in WsHandlers : RegisterReceiverDecide(h)
  \/ \E h \in WsHandlers : AddConnectionLookup(h)
  \/ \E h \in WsHandlers : AddConnectionDone(h)
  \/ \E h \in WsHandlers : RegisteredNotify(h)
  \/ \E h \in WsHandlers : CatchLogged(h)
  \/ BroadcastSteps
  \/ \E c \in Conns : CloseFrame(c)
  \/ \E c \in Conns : CloseEvent(c)
  \/ \E c \in Conns : CloseReceiverRemoved(c)
  \/ \E c \in Conns : CloseLogged(c)

SpecBroadcast == Init /\ [][NextBroadcast]_vars

\* ------------------------------------------------------------- the license decision
\* The three places that decide on a license, at instants on both sides of an
\* expiry second.
MaxDecisions == 2
AdmissionTimes == {StartMs - 1, StartMs, StartMs + MsPerSec - 1, StartMs + MsPerSec}

InitAdmission ==
  /\ InitCommon
  /\ NoLimiterInUse
  /\ boot = "ready"
  /\ now \in AdmissionTimes
  /\ licenses = InitLicenses
  /\ evLeft = MaxDecisions
  /\ touched = 0

NextAdmission ==
  \/ \E h \in WsHandlers, k \in AdmissionInputs : RecvRegisterReceiver(h, k)
  \/ \E h \in HttpIds, k \in AdmissionInputs : HttpRegisterReceiver(h, k)
  \/ \E h \in HttpIds, k \in AdmissionInputs : HttpVerifyLicense(h, k)
  \/ \E h \in HttpIds : HttpRegisterDecide(h)
  \/ \E h \in HttpIds : HttpRegisterAnswer(h)
  \/ \E h \in HttpIds : VerifyDecide(h)
  \/ \E h \in HttpIds : VerifyFailLogged(h)
  \/ \E h \in HttpIds : VerifyUpdated(h)
  \/ \E h \in HttpIds : VerifyLogged(h)
  \/ \E h \in HttpIds, u \in UserInputs, t \in TokenInputs, k \in GeneratedKeys :
       HttpCreateLicense(h, u, DefaultExpiryDays, t, k)
  \/ \E h \in HttpIds : CreateLicenseDone(h)
  \/ \E h \in HttpIds : CreateLicenseLogged(h)
  \/ RegistrationSteps

SpecAdmission == InitAdmission /\ [][NextAdmission]_vars

\* ------------------------------------------------------------- the activation counter
\* Verifications of a fresh license and of one counted twice by the revision
\* that counted every verification, two requests at a time.
InitLicense ==
  /\ InitCommon
  /\ NoLimiterInUse
  /\ boot = "ready"
  /\ now = StartMs
  /\ licenses = [k \in {DemoKey, "LEGACY-KEY", "DEMO-EXPIRED"} |->
                   CASE k = DemoKey ->
                          LicenseRow("active", NowSec(StartMs) + 10 * ReapTimeoutSec, Some(0))
                     [] k = "LEGACY-KEY" ->
                          LicenseRow("active", NowSec(StartMs) + 10 * ReapTimeoutSec, Some(2))
                     [] OTHER -> LicenseRow("active", NowSec(StartMs) - 1, Some(0))]
  /\ evLeft = MaxEvents
  /\ touched = 0

NextLicense ==
  \/ \E h \in HttpIds, k \in VerifyInputs : HttpVerifyLicense(h, k)
  \/ \E h \in HttpIds : VerifyDecide(h)
  \/ \E h \in HttpIds : VerifyFailLogged(h)
  \/ \E h \in HttpIds : VerifyUpdated(h)
  \/ \E h \in HttpIds : VerifyLogged(h)
  \/ \E h \in HttpIds, u \in UserInputs, t \in TokenInputs, k \in GeneratedKeys :
       HttpCreateLicense(h, u, DefaultExpiryDays, t, k)
  \/ \E h \in HttpIds : CreateLicenseDone(h)
  \/ \E h \in HttpIds : CreateLicenseLogged(h)

SpecLicense == InitLicense /\ [][NextLicense]_vars

\* ------------------------------------------------------------- the cleanup timer
\* Sessions register, ping, fail and close, masters register and send
\* heartbeats over HTTP, while time passes and the cleanup timer fires.
NextReaper ==
  \/ \E c \in Conns : SocketError(c)
  \/ \E c \in Conns : SocketErrorLogged(c)
  \/ \E c \in Conns : CloseFrame(c)
  \/ \E c \in Conns : CloseEvent(c)
  \/ \E c \in Conns : CloseReceiverRemoved(c)
  \/ \E c \in Conns : CloseLogged(c)
  \/ \E h \in WsHandlers : RecvRegisterReceiver(h, DemoKey)
  \/ \E h \in WsHandlers : RegisterReceiverDecide(h)
  \/ \E h \in Handlers : AddConnectionLookup(h)
  \/ \E h \in Handlers : AddConnectionDone(h)
  \/ \E h \in WsHandlers : RegisteredNotify(h)
  \/ \E h \in WsHandlers : CatchLogged(h)
  \/ \E h \in WsHandlers : RecvPing(h)
  \/ \E h \in WsHandlers : PingDone(h)
  \/ \E h \in HttpIds, n \in AccountInputs : HttpRegisterMaster(h, n)
  \/ \E h \in HttpIds, id \in DOMAIN dbconns \cup {NoConnectionId} : HttpHeartbeat(h, id)
  \/ \E h \in HttpIds : HeartbeatDone(h)
  \/ \E d \in TickSteps : Tick(d)
  \/ \E s \in Sweeps : ReaperStart(s)
  \/ \E s \in Sweeps : ReaperConnectionsDeleted(s)
  \/ \E s \in Sweeps : ReaperLogsTrimmed(s)

SpecReaper == Init /\ [][NextReaper]_vars

\* ------------------------------------------------------------- the connections table
\* The methods of Database that write the connections table, as the relay
\* calls them and, for updateConnection, as any caller may.
NextDatabase ==
  \/ \E h \in WsHandlers : RecvRegisterMaster(h, ApiKey(MinKeyLen + 1))
  \/ \E h \in WsHandlers : AddConnectionLookup(h)
  \/ \E h \in WsHandlers : AddConnectionDone(h)
  \/ \E h \in WsHandlers : RegisteredNotify(h)
  \/ \E h \in WsHandlers : CatchLogged(h)
  \/ \E h \in WsHandlers : RecvPing(h)
  \/ \E h \in WsHandlers : PingDone(h)
  \/ \E d \in TickSteps : Tick(d)
  \/ \E c \in Conns, data \in UpdateInputs : DbUpdateConnection(c, data)

SpecDatabase == Init /\ [][NextDatabase]_vars

\* ------------------------------------------------------------- the dispatch
\* Messages of every kind, well-formed or not, arrive on sockets of which some
\* are registered receivers.
NextDispatch ==
  \/ \E h \in WsHandlers : RecvRegisterReceiver(h, DemoKey)
  \/ \E h \in WsHandlers, t \in WsTradeInputs : RecvTradeSignal(h, t)
  \/ \E h \in WsHandlers, w \in OtherInputs : RecvOther(h, w)
  \/ \E h \in WsHandlers : RegisterReceiverDecide(h)
  \/ \E h \in WsHandlers : AddConnectionLookup(h)
  \/ \E h \in WsHandlers : AddConnectionDone(h)
  \/ \E h \in WsHandlers : RegisteredNotify(h)
  \/ \E h \in WsHandlers : CatchLogged(h)
  \/ \E h \in WsHandlers : BroadcastFanOut(h)
  \/ \E h \in WsHandlers : BroadcastLogged(h)

SpecDispatch == Init /\ [][NextDispatch]_vars

\* ------------------------------------------------------------- a license lapses
\* A receiver is admitted on a license in its last valid second; then the
\* second passes, an administrator deactivates the license, trades are
\* broadcast, the receiver registers again or closes.
ExpiringKey == "DEMO-BOUNDARY"

NextExpiry ==
  \/ \E h \in WsHandlers : RecvRegisterReceiver(h, ExpiringKey)
  \/ \E h \in WsHandlers : RecvTradeSignal(h, MasterTrade)
  \/ \E h \in HttpIds, t \in TokenInputs : HttpDeactivateLicense(h, ExpiringKey, t)
  \/ \E h \in HttpIds : DeactivateDone(h)
  \/ \E h \in HttpIds : DeactivateLogged(h)
  \/ Tick(MsPerSec)
  \/ \E h \in WsHandlers : RegisterReceiverDecide(h)
  \/ \E h \in WsHandlers : RejectionLogged(h)
  \/ \E h \in WsHandlers : AddConnectionLookup(h)
  \/ \E h \in WsHandlers : AddConnectionDone(h)
  \/ \E h \in WsHandlers : RegisteredNotify(h)
  \/ \E h \in WsHandlers : CatchLogged(h)
  \/ \E h \in WsHandlers : BroadcastFanOut(h)
  \/ \E h \in WsHandlers : BroadcastLogged(h)
  \/ \E c \in Conns : CloseFrame(c)
  \/ \E c \in Conns : CloseEvent(c)
  \/ \E c \in Conns : CloseReceiverRemoved(c)
  \/ \E c \in Conns : CloseLogged(c)

SpecExpiry == Init /\ [][NextExpiry]_vars

\* ------------------------------------------------------------- both roles at work
\* Masters and receivers register, masters send trades, connections fail, are
\* closed by their peer and close.
ValidApiKey == ApiKey(MinKeyLen + 1)

NextStatus ==
  \/ \E h \in WsHandlers : RecvRegisterMaster(h, ValidApiKey)
  \/ \E h \in WsHandlers : RecvRegisterReceiver(h, DemoKey)
  \/ \E h \in WsHandlers : RecvTradeSignal(h, MasterTrade)
  \/ \E h \in WsHandlers : RegisterReceiverDecide(h)
  \/ \E h \in WsHandlers : AddConnectionLookup(h)
  \/ \E h \in WsHandlers : AddConnectionDone(h)
  \/ \E h \in WsHandlers : RegisteredNotify(h)
  \/ \E h \in WsHandlers : CatchLogged(h)
  \/ \E h \in WsHandlers : BroadcastFanOut(h)
  \/ \E h \in WsHandlers : BroadcastLogged(h)
  \/ \E c \in Conns : SocketError(c)
  \/ \E c \in Conns : SocketErrorLogged(c)
  \/ CloseSteps

SpecStatus == Init /\ [][NextStatus]_vars

\* ------------------------------------------------------------- the start of the server
\* and its end
\* app.listen's callback awaits db.connect() and db.init(); a rejection of
\* either ends the process with process.exit(1).  The WebSocket server is
\* attached to the HTTP server when the module is loaded, so sockets are served
\* from the moment the port is listening.
DbConnected ==
  /\ boot = "connecting"
  /\ \E ok \in DbOutcomes :
       /\ Fault(ok)
       /\ boot' = IF ok THEN "initializing" ELSE "exited"
  /\ UNCHANGED <<now, masters, receivers, wsState, wsClose, pc, loc, closepc, licenses,
                 dbconns, trades, logs, httpResp, unhandled, lastStatus, reappc, cutoff,
                 sweepFailed, dropNote, errpc, limiter, served, sigpc, closeFrame>>

\* db.init(): the CREATE TABLE and CREATE INDEX statements
DbInitialized ==
  /\ boot = "initializing"
  /\ \E ok \in DbOutcomes :
       /\ Fault(ok)
       /\ boot' = IF ok THEN "ready" ELSE "exited"
  /\ UNCHANGED <<now, masters, receivers, wsState, wsClose, pc, loc, closepc, licenses,
                 dbconns, trades, logs, httpResp, unhandled, lastStatus, reappc, cutoff,
                 sweepFailed, dropNote, errpc, limiter, served, sigpc, closeFrame>>

\* The port is listening and the database is still to be connected.
InitStartup ==
  /\ InitCommon
  /\ NoLimiterInUse
  /\ boot = "connecting"
  /\ now = StartMs
  /\ licenses = InitLicenses
  /\ evLeft = MaxEvents
  /\ touched = 0

NextStartup ==
  \/ DbConnected
  \/ DbInitialized
  \/ \E h \in WsHandlers : RecvRegisterMaster(h, ValidApiKey)
  \/ \E h \in WsHandlers : RecvRegisterReceiver(h, DemoKey)
  \/ \E h \in WsHandlers : RegisterReceiverDecide(h)
  \/ \E h \in WsHandlers : AddConnectionLookup(h)
  \/ \E h \in WsHandlers : AddConnectionDone(h)
  \/ \E h \in WsHandlers : RegisteredNotify(h)
  \/ \E h \in WsHandlers : CatchLogged(h)
  \/ \E sig \in Signals : Signal(sig)
  \/ \E sig \in Signals : ShutdownLogged(sig)
  \/ \E sig \in Signals : ShutdownClosed(sig)

SpecStartup == InitStartup /\ [][NextStartup]_vars

\* ------------------------------------------------------------- auth.js: the rate limiter
WindowMs == 60000
TooManyRequests == 429
MaxLimit == 2        \* the largest requestsPerMinute a limiter is created with
MaxRequests == 5     \* requests and passages of time in one run of the limiter
RateIps == {"10.0.0.1", "10.0.0.2"}
\* Time passes up to the reset time of a window opened just before, or just past it.
RateTicks == {WindowMs, WindowMs + 1}

\* The middleware createRateLimiter returns, run for a request of ip at time ms:
\* the closure after it, whether it called next() or answered 429, and whether
\* it opened a window.
RateLimiterMiddleware(lim, ip, ms) ==
  LET requests == lim.requests
      fresh == [count |-> 1, resetTime |-> ms + WindowMs]
  IN  IF ip \notin DOMAIN requests
      THEN [limiter |-> [lim EXCEPT !.requests = MapSet(requests, ip, fresh)],
            passed |-> TRUE, status |-> 0, opened |-> TRUE]
      ELSE IF ms > requests[ip].resetTime
      THEN [limiter |-> [lim EXCEPT !.requests = MapSet(requests, ip, fresh)],
            passed |-> TRUE, status |-> 0, opened |-> TRUE]
      ELSE IF requests[ip].count >= lim.requestsPerMinute
      THEN [limiter |-> lim, passed |-> FALSE, status |-> TooManyRequests,
            opened |-> FALSE]
      ELSE [limiter |-> [lim EXCEPT !.requests[ip].count = @ + 1],
            passed |-> TRUE, status |-> 0, opened |-> FALSE]

\* A request of ip goes through the limiter.
RateLimitedRequest(ip) ==
  /\ SpendOne
  /\ LET out == RateLimiterMiddleware(limiter, ip, now)
     IN  /\ limiter' = out.limiter
         /\ served' = Append(served, [ip |-> ip, at |-> now, passed |-> out.passed,
                                      status |-> out.status, opened |-> out.opened,
                                      count |-> out.limiter.requests[ip].count])
  /\ UNCHANGED <<now, masters, receivers, wsState, wsClose, pc, loc, closepc, licenses,
                 dbconns, trades, logs, httpResp, unhandled, lastStatus, reappc, cutoff,
                 sweepFailed, dropNote, boot, errpc, sigpc, closeFrame>>

\* A limiter is created with some requestsPerMinute; requests of two clients
\* arrive as time passes.
InitRateLimit ==
  /\ InitCommon
  /\ boot = "ready"
  /\ \E n \in 0..MaxLimit : limiter = InitLimiter(n)
  /\ served = <<>>
  /\ now = StartMs
  /\ licenses = InitLicenses
  /\ evLeft = MaxRequests
  /\ touched = 0

NextRateLimit ==
  \/ \E ip \in RateIps : RateLimitedRequest(ip)
  \/ \E d \in RateTicks : Tick(d)

SpecRateLimit == InitRateLimit /\ [][NextRateLimit]_vars

\* ------------------------------------------------------------- properties
Registry == DOMAIN masters \cup DOMAIN receivers

\* The step of handler h that runs the fan-out loop of a broadcast.
FanOutStep(h) == pc[h] = "bc_trade" /\ pc'[h] # "bc_trade"

\* An exception leaves the handler h: the message handler's catch block is
\* entered, or the request is answered 500.
Raised(h) ==
  /\ pc'[h] # pc[h]
  /\ IF h \in WsHandlers THEN pc'[h] = "catch_log" ELSE httpResp'[h].status = 500

\* C1 (as stated): for every trade broadcast, the sessions the trade-signal is
\* sent to are exactly the sessions of the Receiver partition at the moment
\* broadcastTradeSignal was invoked, whatever registered or closed meanwhile.
C1_SentToPartitionAtInvocation ==
  \A h \in Handlers : pc[h] = "bc_log" => loc[h].targets = loc[h].atInvoke

\* C1 (amended): for every trade broadcast, the sessions the trade-signal is
\* sent to are exactly the sessions of the Receiver partition at the moment the
\* fan-out loop runs, that is once the broadcast's trade persistence call has
\* settled: a register-receiver or close of another connection that completes
\* while the broadcast is suspended on that call is reflected in the recipients.
C1_SentToPartitionAtFanOut ==
  [][\A h \in Handlers :
       FanOutStep(h) => /\ pc'[h] = "bc_log"
                        /\ loc'[h].targets = DOMAIN receivers
                        /\ receivers' = receivers]_vars

\* A broadcast whose recipients are not the partition of its invocation: a
\* receiver registered while the broadcast was suspended, and was sent the trade.
C1_Witness ==
  \E h \in Handlers :
    /\ pc[h] = "bc_log"
    /\ loc[h].targets \ loc[h].atInvoke # {}
    /\ loc[h].sent > 0

\* C6: once the close handler of a connection has run, its session id is in
\* neither partition of the Registry, in every later state.
C6_ClosedSessionAbsent ==
  \A c \in Conns : closepc[c] = "done" => c \notin Registry

\* C7: no session id is in both the Master and the Receiver partition (a session
\* registered under one role is never registered under the other).
C7_OneRolePerSession ==
  DOMAIN masters \cap DOMAIN receivers = {}

\* C8: a trade is handed to a receiver only by a broadcast whose sender is, at
\* that moment, a session of the Master partition.
C8_OnlyMastersReachReceivers ==
  [][\A h \in Handlers :
       FanOutStep(h) /\ loc'[h].sent > 0 =>
         h \in WsHandlers /\ Sock(h) \in DOMAIN masters]_vars

\* C9: within one trade broadcast a failing send is caught locally: every
\* receiver of the partition is still attempted, the fan-out does not raise (the
\* only exception that leaves broadcastTradeSignal is a rejection of its final
\* db.log call), and no step of the broadcast modifies the Registry.
C9_SendFailureIsLocal ==
  [][\A h \in Handlers :
       /\ FanOutStep(h) =>
            /\ pc'[h] = "bc_log"
            /\ loc'[h].failed \subseteq loc'[h].targets
            /\ DOMAIN receivers \ loc'[h].failed \subseteq loc'[h].targets
            /\ loc'[h].sent = Cardinality(DOMAIN receivers) - Cardinality(loc'[h].failed)
       /\ pc[h] \in {"bc_trade", "bc_log"} /\ Raised(h) =>
            pc[h] = "bc_log" /\ evLeft' < evLeft
       /\ pc[h] \in {"bc_trade", "bc_log"} /\ pc'[h] # pc[h] =>
            masters' = masters /\ receivers' = receivers]_vars

\* A broadcast over two receivers in which one send failed and the other was made.
C9_Witness ==
  \E h \in Handlers :
    /\ pc[h] = "bc_log"
    /\ loc[h].failed # {}
    /\ loc[h].targets \ loc[h].failed # {}

\* C10: the receivers value of the /api/send-trade response is the delivery
\* count of its broadcast, the number of sends handed to the transport without
\* failure (n - k for n receivers of which k fail).
C10_ResponseReportsDeliveryCount ==
  [][\A h \in HttpIds :
       pc[h] = "bc_log" /\ httpResp'[h].status = 200 =>
         /\ loc[h].sent = Cardinality(loc[h].targets) - Cardinality(loc[h].failed)
         /\ httpResp'[h].receivers = Some(loc[h].sent)]_vars

\* C2: the license a decision is about, and the decision the claim prescribes:
\* the license exists, is active, and the current second is not past its expiry.
Admissible(licenseKey) ==
  LET license == getLicense(licenses, licenseKey)
  IN  /\ license.found
      /\ license.status = "active"
      /\ NowSec(now) <= license.expiry_date

\* C2: admission is a function of the license record and the current time (in
\* whole seconds): the WebSocket register-receiver path, /api/register-receiver
\* and /api/verify-license each accept exactly when the license exists, is
\* active and now <= expiry, and reject otherwise.
C2_AdmissionIsTheSameEverywhere ==
  [][/\ \A c \in WsHandlers :
          pc[c] = "rr_get" /\ pc'[c] # "rr_get" /\ ~Raised(c) =>
            /\ Admissible(loc[c].lic) =>
                 pc'[c] = "ac_get" /\ Sock(c) \in DOMAIN receivers'
            /\ ~Admissible(loc[c].lic) =>
                 pc'[c] = "rr_rejlog" /\ receivers' = receivers
     /\ \A h \in HttpIds :
          /\ pc[h] = "hr_get" /\ pc'[h] # "hr_get" /\ ~Raised(h) =>
               /\ Admissible(loc[h].lic) => pc'[h] = "hr_masters"
               /\ ~Admissible(loc[h].lic) =>
                    httpResp'[h].status = 401 /\ ~httpResp'[h].success
          /\ pc[h] = "vl_get" /\ pc'[h] # "vl_get" /\ ~Raised(h) =>
               /\ Admissible(loc[h].lic) => pc'[h] = "vl_upd"
               /\ ~Admissible(loc[h].lic) =>
                    pc'[h] \in {"idle", "vl_faillog"} /\ ~httpResp'[h].success
          /\ httpResp'[h].success /\ ~httpResp[h].success
               /\ httpResp'[h].message \in {"Receiver registered", "verified"} =>
               pc[h] \in {"hr_masters", "vl_log"}]_vars

\* A license that expires in the current second was accepted by the WebSocket
\* path and by an HTTP path.
C2_Witness ==
  /\ \E c \in DOMAIN receivers :
       /\ receivers[c].licenseKey = "DEMO-BOUNDARY"
       /\ licenses["DEMO-BOUNDARY"].expiry_date = NowSec(now)
  /\ \E h \in HttpIds :
       pc[h] \in {"hr_masters", "vl_upd"} /\ loc[h].lic = "DEMO-BOUNDARY"

\* C3: the credentials the claim calls rejected.
RejectedKey(apiKey) == ~apiKey.present \/ apiKey.length <= MinKeyLen
RejectedLicense(licenseKey) ==
  LET license == getLicense(licenses, licenseKey)
  IN  \/ ~license.found
      \/ license.status # "active"
      \/ license.expiry_date < NowSec(now)

\* The server calls ws.close(1008, reason) on c, whose socket is not open after.
ClosedForPolicy(c) ==
  /\ wsClose'[c].code = 1008
  /\ wsClose'[c].reason # ""
  /\ wsState'[c] # "OPEN"

\* C3: a rejected registration closes the transport with code 1008 and a
\* reason, and no step of handling the rejected message adds or changes an
\* entry of either partition of the Registry.
C3_RejectionClosesAndRegistersNothing ==
  [][\A h \in WsHandlers :
       /\ \A k \in ApiKeyInputs :
            RejectedKey(k) /\ RecvRegisterMaster(h, k) =>
              /\ ClosedForPolicy(Sock(h))
              /\ wsClose'[Sock(h)].reason = "Invalid API key"
              /\ pc'[h] = "idle"
              /\ masters' = masters /\ receivers' = receivers
       /\ pc[h] = "rr_get" /\ RejectedLicense(loc[h].lic)
            /\ pc'[h] # "rr_get" /\ ~Raised(h) =>
              /\ ClosedForPolicy(Sock(h))
              /\ wsClose'[Sock(h)].reason = "Invalid or expired license"
              /\ pc'[h] = "rr_rejlog"
              /\ masters' = masters /\ receivers' = receivers
       /\ pc[h] = "rr_rejlog" /\ pc'[h] # "rr_rejlog" =>
              masters' = masters /\ receivers' = receivers]_vars

\* One connection was refused as a master and another as a receiver; neither
\* is in the Registry.
C3_Witness ==
  \E c, d \in Conns :
    /\ wsClose[c] = [code |-> PolicyViolation, reason |-> "Invalid API key"]
    /\ wsClose[d] = [code |-> PolicyViolation, reason |-> "Invalid or expired license"]
    /\ pc[d] = "idle"
    /\ {c, d} \cap Registry = {}

\* C4: the activation count of a license as a number.
ActivationCount(table, k) == table[k].activation_count[1]

\* C4: a license that started at 0 and was verified at least once counts
\* exactly 1; no verification raises a count above 1 or lowers one.
C4_ActivationCountedOnce ==
  /\ [](/\ licenses[DemoKey].last_verified # Null =>
             ActivationCount(licenses, DemoKey) = 1
        /\ ActivationCount(licenses, DemoKey) \in {0, 1})
  /\ [][\A k \in DOMAIN licenses :
          /\ ActivationCount(licenses', k) >= ActivationCount(licenses, k)
          /\ ActivationCount(licenses', k) > ActivationCount(licenses, k) =>
               ActivationCount(licenses', k) = 1]_vars

\* Two concurrent verifications of the fresh license have both run their
\* update, and the count is 1.
C4_Witness ==
  /\ \A h \in HttpIds : pc[h] = "vl_log" /\ loc[h].lic = DemoKey
  /\ ActivationCount(licenses, DemoKey) = 1

\* C5: when a registry entry was last heard of, and whether the sweep that
\* computed cutoff finds it silent for longer than the timeout.
LastSeenAt(entry) == IF entry.lastPing = Null THEN entry.connected ELSE entry.lastPing[1]
TimedOut(entry, s) == NowSec(LastSeenAt(entry)) < cutoff[s]

\* C5: a sweep of the cleanup timer removes a session from the Registry exactly
\* when the session has been silent for longer than the timeout (300 s).
C5_SweepRemovesTheSilent ==
  [][\A s \in Sweeps :
       reappc[s] = "rp_conn" /\ reappc'[s] # "rp_conn" =>
         /\ \A c \in DOMAIN masters : c \notin DOMAIN masters' <=> TimedOut(masters[c], s)
         /\ \A c \in DOMAIN receivers :
              c \notin DOMAIN receivers' <=> TimedOut(receivers[c], s)]_vars

\* C11: a session whose transport has failed is removed from the Registry at
\* the latest by the next sweep of the cleanup timer: when a sweep has done its
\* work, no session that was already failed when the sweep began is registered.
C11_FailedSessionGoneBySweep ==
  [][\A s \in Sweeps :
       reappc[s] = "rp_conn" /\ reappc'[s] # "rp_conn" =>
         sweepFailed[s] \cap (DOMAIN masters' \cup DOMAIN receivers') = {}]_vars

\* C12: /api/send-trade persists exactly one trade record for its trade, as a
\* trade-signal message does: the handler has written the record when it enters
\* the broadcast, so the broadcast it runs writes no further record.
C12_SendTradePersistsOneRecord ==
  [][\A h \in HttpIds : FanOutStep(h) => Len(trades') = Len(trades)]_vars

\* C13: a failed trade-persistence write never aborts delivery: on either entry
\* point, the step that settles a db.logTrade call, resolved or rejected, leaves
\* the handler on its way to the fan-out or runs the fan-out over every receiver.
C13_PersistenceFailureKeepsDelivery ==
  [][\A h \in Handlers :
       pc[h] \in {"st_trade", "bc_trade"} /\ pc'[h] # pc[h] =>
         \/ pc'[h] = "bc_trade"
         \/ pc'[h] = "bc_log" /\ loc'[h].targets = DOMAIN receivers]_vars

\* The peer-count event a change of the given role's partition is announced with.
UpdateEventOf(role) == IF role = "master" THEN "connection-update" ELSE "receiver-update"

\* C14: every add to and every removal from a partition is followed by the
\* peer-count notification to the other role, whatever the persistence calls
\* do: a handler that has added or removed an entry leaves its persistence
\* calls only by sending that notification.
C14_MutationIsNotified ==
  [][/\ \A h \in WsHandlers :
          pc[h] \in {"ac_get", "ac_run", "reg_log"}
            /\ pc'[h] \notin {"ac_get", "ac_run", "reg_log"} =>
              /\ pc'[h] = "idle"
              /\ lastStatus'.type = UpdateEventOf(loc[h].role)
     /\ \A c \in Conns :
       /\ closepc[c] = "um_run" /\ closepc'[c] # "um_run" =>
              /\ closepc'[c] # "done"
              /\ lastStatus'.type = UpdateEventOf("master")
       /\ closepc[c] = "ur_run" /\ closepc'[c] # "ur_run" =>
              /\ closepc'[c] # "done"
              /\ lastStatus'.type = UpdateEventOf("receiver")]_vars

\* The partition a session of the given role is kept in.
PartitionOf(role) == IF role = "master" THEN DOMAIN masters ELSE DOMAIN receivers

\* C15: mirroring into the database never blocks or fails a Registry mutation.
\* An admitted session is in its partition when addConnection is issued; no
\* step that settles addConnection or the log call, resolved or rejected,
\* changes the Registry; an entry leaves a partition only in a step of its own
\* close handler; and a removed id is out of its partition when
\* removeConnection is issued and when it settles, resolved or rejected.
C15_PersistenceNeverUndoesMutation ==
  /\ [](\A h \in WsHandlers :
          pc[h] \in {"ac_get", "ac_run", "reg_log"} /\ closepc[Sock(h)] = "idle" =>
            Sock(h) \in PartitionOf(loc[h].role))
  /\ [][/\ \A h \in WsHandlers :
            pc[h] \in {"ac_get", "ac_run", "reg_log"} /\ pc'[h] # pc[h] =>
              masters' = masters /\ receivers' = receivers
       /\ \A c \in Conns :
          /\ c \in DOMAIN masters /\ c \notin DOMAIN masters' => closepc'[c] # closepc[c]
          /\ c \in DOMAIN receivers /\ c \notin DOMAIN receivers' => closepc'[c] # closepc[c]
          /\ closepc'[c] = "um_run" \/ closepc[c] = "um_run" => c \notin DOMAIN masters'
          /\ closepc'[c] = "ur_run" /\ closepc[c] # "ur_run" => c \notin DOMAIN receivers'
          /\ closepc[c] = "ur_run" /\ closepc'[c] # "ur_run" =>
               receivers' = receivers]_vars

\* A master whose addConnection was rejected is still in the Master partition.
C15_Witness ==
  \E c \in DOMAIN masters :
    /\ pc[c] = "catch_log"
    /\ c \notin DOMAIN dbconns
    /\ closepc[c] = "idle"

\* C16: removing an id that is absent from a partition is a no-op.  When the
\* close handler unregisters an id that is not a master, the Master partition
\* is unchanged and no removeConnection is issued for it; when the id is not a
\* receiver, the Receiver partition is unchanged, no removeConnection is issued
\* and the handler goes on to its final log call; and the steps of a close
\* handler that removed nothing write no connection record and send no
\* peer-count notification.
C16_RemovingAbsentIsNoOp ==
  [][\A c \in Conns :
       /\ closepc[c] = "idle" /\ closepc'[c] # "idle" /\ c \notin DOMAIN masters =>
            masters' = masters /\ closepc'[c] # "um_run"
       /\ closepc[c] \in {"idle", "um_run"} /\ closepc'[c] # closepc[c]
            /\ c \notin DOMAIN receivers =>
            receivers' = receivers /\ closepc'[c] # "ur_run"
       /\ closepc[c] = "idle" /\ closepc'[c] # "idle"
            /\ c \notin DOMAIN masters \cup DOMAIN receivers =>
            /\ closepc'[c] = "cl_log"
            /\ dbconns' = dbconns /\ lastStatus' = lastStatus
       /\ closepc[c] = "cl_log" /\ closepc'[c] # "cl_log" =>
            /\ masters' = masters /\ receivers' = receivers
            /\ dbconns' = dbconns /\ lastStatus' = lastStatus]_vars

\* A connection that never registered has closed and its close handler has
\* finished, while a registered session and its connection record are as before.
C16_Witness ==
  \E c, d \in Conns :
    /\ closepc[c] = "done"
    /\ c \notin DOMAIN dbconns
    /\ logs["Client disconnected"] = 1
    /\ d \in DOMAIN masters
    /\ d \in DOMAIN dbconns /\ dbconns[d].status = "active"

\* C17: adding a session is idempotent per id.  A register-master or
\* register-receiver accepted on a connection that is already in the partition
\* leaves the partition with the same ids; addConnection runs an UPDATE for an
\* id that has a connection record; and that UPDATE leaves the table with the
\* same ids, the record active and freshly pinged, every other record as it was.
C17_AddIsIdempotent ==
  /\ [](\A h \in WsHandlers :
          pc[h] = "ac_run" /\ Sock(h) \in DOMAIN dbconns => loc[h].stmt = "update")
  /\ [][\A h \in WsHandlers :
          /\ Sock(h) \in DOMAIN masters /\ pc[h] = "idle" /\ pc'[h] = "ac_get" =>
               DOMAIN masters' = DOMAIN masters /\ receivers' = receivers
          /\ Sock(h) \in DOMAIN receivers /\ pc[h] = "rr_get" /\ pc'[h] = "ac_get" =>
               DOMAIN receivers' = DOMAIN receivers /\ masters' = masters
          /\ Sock(h) \in DOMAIN dbconns /\ pc[h] = "ac_run" /\ pc'[h] # "ac_run"
               /\ evLeft' = evLeft =>
               /\ pc'[h] = "reg_log"
               /\ DOMAIN dbconns' = DOMAIN dbconns
               /\ dbconns'[Sock(h)].status = "active"
               /\ dbconns'[Sock(h)].last_ping = NowSec(loc[h].stamp)
               /\ dbconns'[Sock(h)].type = dbconns[Sock(h)].type
               /\ \A d \in DOMAIN dbconns \ {Sock(h)} : dbconns'[d] = dbconns[d]]_vars

\* C18: every ping received on an established session, its socket open,
\* updates the session's last-seen time in the Registry and is answered with a
\* pong; it adds no session and removes none.
C18_PingTouchesAndIsAnswered ==
  [][\A h \in WsHandlers :
       pc[h] = "pg_run" /\ pc'[h] # "pg_run"
         /\ Sock(h) \in DOMAIN masters \cup DOMAIN receivers
         /\ wsState[Sock(h)] = "OPEN" =>
           /\ pc'[h] = "idle"
           /\ Sock(h) \in DOMAIN masters => masters'[Sock(h)].lastPing = Some(now)
           /\ Sock(h) \in DOMAIN receivers => receivers'[Sock(h)].lastPing = Some(now)
           /\ DOMAIN masters' = DOMAIN masters
           /\ DOMAIN receivers' = DOMAIN receivers]_vars

\* C19: a message whose type is none of register-master, register-receiver,
\* trade-signal and ping is dropped: no socket is closed, the Registry is
\* unchanged, no handler is left running, nothing is broadcast, no trade and no
\* connection record is written.
C19_UnknownTypeIsDropped ==
  [][\A c \in WsHandlers :
       RecvOther(c, "unknown-type") =>
         /\ wsState' = wsState /\ wsClose' = wsClose
         /\ masters' = masters /\ receivers' = receivers
         /\ pc' = pc /\ loc' = loc
         /\ trades' = trades /\ dbconns' = dbconns
         /\ lastStatus' = lastStatus]_vars

\* A registered receiver has sent a message of unknown type: it is open,
\* registered and idle, and nothing was persisted or logged as an error.
C19_Witness ==
  \E c \in DOMAIN receivers :
    /\ evLeft = MaxEvents - 2
    /\ touched = 1
    /\ wsState[c] = "OPEN"
    /\ pc[c] = "idle"
    /\ logs["Receiver registered"] = 1
    /\ logs["WebSocket message error"] = 0
    /\ trades = <<>>
    /\ dropNote = "Unknown message type"

\* C20: a trade-signal whose trade is no object or lacks symbol, action or
\* volume is neither persisted as a trade nor delivered to any receiver.
C20_MalformedTradeIsDropped ==
  [][\A c \in WsHandlers :
       FanOutStep(c) /\ (trades' # trades \/ loc'[c].sent > 0) =>
         loc[c].trade.isObject /\ ~SendTradeInvalid(loc[c].trade)]_vars

\* C21: no failure escapes a handler of the relay: whatever message, close or
\* socket error arrives and whichever database call rejects while it is handled
\* (the db.log of the error path included), the rejection is caught, so no
\* handler ever ends in an unhandled promise rejection.
C21_NoFailureEscapes ==
  unhandled = 0

\* C22: license validity is checked only at admission.  Time passing and a
\* deactivation change neither the Registry nor any transport; a receiver
\* leaves the Receiver partition only in a step of its own close handler; the
\* server closes a transport only when it decides a registration message of
\* that connection; and every trade broadcast is sent to every session of the
\* Receiver partition, whatever has become of its license, failing only on
\* sockets that are no longer open.
C22_LicenseCheckedOnlyAtAdmission ==
  [][/\ now' # now \/ licenses' # licenses =>
          /\ masters' = masters /\ receivers' = receivers
          /\ wsState' = wsState /\ wsClose' = wsClose
     /\ \A c \in Conns :
          /\ c \in DOMAIN receivers /\ c \notin DOMAIN receivers' =>
               closepc'[c] # closepc[c]
          /\ wsClose'[c] # wsClose[c] =>
               \E h \in WsHandlers :
                 /\ Sock(h) = c
                 /\ \/ pc[h] = "rr_get" /\ pc'[h] = "rr_rejlog"
                    \/ \E k \in ApiKeyInputs : RecvRegisterMaster(h, k)
     /\ \A h \in WsHandlers :
          FanOutStep(h) =>
            /\ loc'[h].targets = DOMAIN receivers
            /\ \A r \in loc'[h].failed : wsState[r] # "OPEN"]_vars

\* A trade was sent to an open, registered receiver whose license has since
\* both expired and been deactivated.
C22_Witness ==
  \E h \in Handlers :
    /\ pc[h] = "bc_log"
    /\ \E c \in loc[h].targets \ loc[h].failed :
         /\ c \in DOMAIN receivers
         /\ wsState[c] = "OPEN"
         /\ wsClose[c] = NoClose
         /\ licenses[receivers[c].licenseKey].status = "inactive"
         /\ NowSec(now) > licenses[receivers[c].licenseKey].expiry_date

\* C23: every rejected admission is logged: a register-master refused for its
\* API key and a register-receiver refused for its license each leave the
\* handler writing a row to the logs table, and the row is appended when that
\* write resolves.
C23_RejectionIsLogged ==
  [][\A c \in WsHandlers :
       /\ \A k \in ApiKeyInputs :
            RejectedKey(k) /\ RecvRegisterMaster(c, k) =>
              logs' # logs \/ pc'[c] # "idle"
       /\ pc[c] = "rr_get" /\ pc'[c] # "rr_get" /\ ~Raised(c)
            /\ RejectedLicense(loc[c].lic) => pc'[c] = "rr_rejlog"
       /\ pc[c] = "rr_rejlog" /\ pc'[c] # "rr_rejlog" /\ evLeft' = evLeft =>
            logs'["Receiver rejected"] = logs["Receiver rejected"] + 1]_vars

\* The step in which message handler c, or the close handler of connection c,
\* sends the peer-count event of the given role: after the 'registered' log
\* row, or after removeConnection.
StatusSendStep(c, role) ==
  \/ pc[c] = "reg_log" /\ pc'[c] = "idle" /\ loc[c].role = role
  \/ /\ c \in Conns
     /\ closepc[c] = (IF role = "master" THEN "um_run" ELSE "ur_run")
     /\ closepc'[c] \notin {closepc[c], "done"}

\* C24: status events go only to the opposite role and carry the current
\* count.  A connection-update is sent only to sessions of the Receiver
\* partition and carries the size of the Master partition at that moment; a
\* receiver-update is sent only to sessions of the Master partition and carries
\* the size of the Receiver partition; no other step sends a status event; and
\* a trade-signal is never sent to a session that is only a master.
C24_StatusGoesToTheOtherRole ==
  [][/\ \A c \in WsHandlers :
          /\ StatusSendStep(c, "master") =>
               /\ lastStatus'.type = "connection-update"
               /\ lastStatus'.to \subseteq DOMAIN receivers
               /\ lastStatus'.count = Cardinality(DOMAIN masters)
               /\ masters' = masters
          /\ StatusSendStep(c, "receiver") =>
               /\ lastStatus'.type = "receiver-update"
               /\ lastStatus'.to \subseteq DOMAIN masters
               /\ lastStatus'.count = Cardinality(DOMAIN receivers)
               /\ receivers' = receivers /\ masters' = masters
          /\ FanOutStep(c) =>
               loc'[c].targets \cap (DOMAIN masters \ DOMAIN receivers) = {}
     /\ lastStatus' # lastStatus =>
          \E c \in WsHandlers, role \in {"master", "receiver"} :
            StatusSendStep(c, role)]_vars

\* A master was told of the one receiver, then sent a trade that went to the
\* receiver and not to the master itself.
C24_Witness ==
  \E m \in DOMAIN masters \ DOMAIN receivers :
    /\ lastStatus = [type |-> "receiver-update", count |-> 1, to |-> {m}]
    /\ pc[m] = "bc_log"
    /\ m \notin loc[m].targets
    /\ loc[m].sent = 1

\* No handler, close handler or cleanup is suspended on a database call.
Quiescent ==
  /\ \A h \in Handlers : pc[h] = "idle"
  /\ \A c \in Conns : closepc[c] \in {"idle", "done"}
  /\ \A c \in Conns : errpc[c] \in {"idle", "done"}
  /\ \A s \in Sweeps : reappc[s] = "idle"
  /\ \A sig \in Signals : sigpc[sig] = NoShutdown

\* The connection record of id says the session is live.
RecordedActive(table, id) == id \in DOMAIN table /\ table[id].status = "active"

\* C25: the Registry and the connections table agree on which sessions are
\* live.  At every quiescent point of a run in which no handler failed, a
\* session is in the Registry exactly when it has a connection record with
\* status active; and a sweep of the cleanup timer leaves every stale session
\* out of the Registry with its record kept and marked disconnected.
C25_RegistryAgreesWithRecords ==
  /\ [](Quiescent /\ unhandled = 0 /\ logs["WebSocket message error"] = 0 =>
          \A c \in Conns : c \in Registry <=> RecordedActive(dbconns, c))
  /\ [][\A s \in Sweeps :
          reappc[s] = "rp_conn" /\ reappc'[s] = "rp_logs" =>
            \A c \in DOMAIN dbconns :
              dbconns[c].last_ping < cutoff[s] /\ dbconns[c].status = "active" =>
                /\ c \notin DOMAIN masters' \cup DOMAIN receivers'
                /\ c \in DOMAIN dbconns'
                /\ dbconns'[c].status = "disconnected"]_vars

\* The partition a status event of the given role is meant for: the
\* connection-update of a master goes to the receivers, the receiver-update
\* of a receiver to the masters.
StatusAudience(role) == IF role = "master" THEN DOMAIN receivers ELSE DOMAIN masters

\* The step of handler h in which a trade fan-out makes its first delivery
\* attempt also makes its last: it calls send once for every session that is in
\* the Receiver partition when the loop starts, and the Registry and every other
\* handler, close handler, error handler and sweep are as they were.
TradeFanOutAlone(h) ==
  /\ loc[h].targets = {} /\ pc'[h] = "bc_log"
  /\ loc'[h].targets = DOMAIN receivers
  /\ loc'[h].failed \subseteq loc'[h].targets
  /\ loc'[h].sent + Cardinality(loc'[h].failed) = Cardinality(DOMAIN receivers)
  /\ masters' = masters /\ receivers' = receivers
  /\ \A g \in Handlers \ {h} : pc'[g] = pc[g] /\ loc'[g] = loc[g]
  /\ closepc' = closepc /\ reappc' = reappc /\ errpc' = errpc
  /\ wsState' = wsState /\ closeFrame' = closeFrame

\* The step in which h sends a status event calls send for exactly the sessions
\* in attempted, and nothing else moves: the Registry is as it was but for the
\* close handler's own entry, deleted once the loop has returned.
StatusFanOutAlone(h, attempted) ==
  /\ lastStatus'.to = attempted
  /\ masters' = masters
  /\ receivers' \in {receivers, MapDelete(receivers, h)}
  /\ \A g \in Handlers \ {h} : pc'[g] = pc[g] /\ loc'[g] = loc[g]
  /\ \A g \in Conns \ {h} : closepc'[g] = closepc[g]
  /\ reappc' = reappc /\ errpc' = errpc
  /\ wsState' = wsState /\ closeFrame' = closeFrame

\* C26 as the specification words it: a fan-out runs to completion without
\* interleaving, so that every session in the partition when the loop starts
\* gets exactly one delivery attempt, in a trade broadcast and in a status
\* broadcast alike.
C26_EveryMemberAttempted ==
  [][\A h \in WsHandlers :
       /\ FanOutStep(h) => TradeFanOutAlone(h)
       /\ loc'[h].targets \notin {loc[h].targets, {}} => FanOutStep(h)
       /\ \A role \in {"master", "receiver"} :
            StatusSendStep(h, role) => StatusFanOutAlone(h, StatusAudience(role))]_vars

\* C26: a fan-out runs to completion without interleaving.  The step that
\* makes the first delivery attempt of a trade broadcast also makes the last:
\* it attempts every session that is in the Receiver partition when the loop
\* starts, each once (attempts = deliveries + failures), whatever the state of
\* its socket, and in that step the Registry is neither added to, removed from
\* nor touched and no other handler, close handler or timer callback moves.  A
\* status broadcast likewise completes within one step in which no other
\* handler moves, but it attempts only the sessions of the other partition
\* whose socket is open at that moment, each once: a session whose socket is
\* closing (its peer's Close frame read, an error raised, or closed by the
\* server) gets no delivery attempt.
C26_FanOutIsAtomic ==
  [][\A h \in WsHandlers :
       /\ FanOutStep(h) => TradeFanOutAlone(h)
       /\ loc'[h].targets \notin {loc[h].targets, {}} => FanOutStep(h)
       /\ \A role \in {"master", "receiver"} :
            StatusSendStep(h, role) =>
              StatusFanOutAlone(h, {r \in StatusAudience(role) : wsState[r] = "OPEN"})]_vars

\* A receiver was admitted and its peer sent the Close frame; the
\* connection-update of the master that registered skipped that receiver,
\* which is still in the Receiver partition with its close event to come; and
\* the fan-out of a trade made its one delivery attempt to that same receiver.
C26_Witness ==
  \E h \in WsHandlers, r \in DOMAIN receivers :
    /\ pc[h] = "bc_log"
    /\ loc[h].targets = {r}
    /\ loc[h].sent + Cardinality(loc[h].failed) = 1
    /\ r \in closeFrame /\ wsState[r] = "CLOSING" /\ closepc[r] = "idle"
    /\ errpc[r] = "idle" /\ wsClose[r] = NoClose
    /\ logs["Receiver registered"] = 1
    /\ lastStatus = [type |-> "connection-update", count |-> 1, to |-> {}]

\* C27: a failure of db.connect() or db.init() at startup ends the process,
\* and until both have succeeded no connection is served and no session is in
\* the Registry.
C27_NothingBeforeInitialization ==
  /\ [](boot \in {"connecting", "initializing"} => touched = 0 /\ Registry = {})
  /\ [][(boot \in {"connecting", "initializing"} /\ boot' # boot /\ evLeft' < evLeft)
          => (boot' = "exited")]_vars

\* C28: the close handler removes its session id from every partition that
\* holds it, whatever the database does: in the step that ends the close
\* handler, by its last call resolving or by a rejection leaving it, the id is
\* in neither partition; in particular when removeConnection rejects while the
\* master entry is being unregistered.
C28_CloseRemovesFromEveryPartition ==
  [][\A c \in Conns :
       closepc[c] # "done" /\ closepc'[c] = "done" =>
         c \notin DOMAIN masters' \cup DOMAIN receivers']_vars

\* C29: admitting a receiver leaves the license record as it is.  No step of
\* the register-receiver message handler, of /api/register-receiver or of a
\* verification that fails changes the licenses table; the table changes only
\* in the step in which /api/verify-license, having found the license valid,
\* completes updateLicenseVerified, and then only last_verified and
\* activation_count of that one license change.
C29_AdmissionLeavesLicenseUnchanged ==
  [][/\ \A c \in WsHandlers : pc'[c] # pc[c] => licenses' = licenses
     /\ \A h \in HttpIds :
          pc'[h] # pc[h] /\ pc[h] \notin {"vl_upd", "nl_run"} => licenses' = licenses
     /\ DOMAIN licenses \subseteq DOMAIN licenses'
     /\ \A k \in DOMAIN licenses' \ DOMAIN licenses :
          /\ licenses'[k].last_verified = Null
          /\ licenses'[k].activation_count = Some(0)
     /\ (\E k \in DOMAIN licenses : licenses'[k] # licenses[k]) =>
          \E h \in HttpIds :
            /\ pc[h] = "vl_upd" /\ pc'[h] = "vl_log"
            /\ Admissible(loc[h].lic)
            /\ DOMAIN licenses' = DOMAIN licenses
            /\ \A k \in DOMAIN licenses \ {loc[h].lic} : licenses'[k] = licenses[k]
            /\ licenses'[loc[h].lic] =
                 [licenses[loc[h].lic] EXCEPT
                    !.last_verified = licenses'[loc[h].lic].last_verified,
                    !.activation_count = licenses'[loc[h].lic].activation_count]]_vars

\* A receiver was admitted over the WebSocket and another over
\* /api/register-receiver, and the license record is as it was at the start.
C29_Witness ==
  /\ \E c \in DOMAIN receivers :
       /\ receivers[c].licenseKey = DemoKey
       /\ pc[c] \in {"ac_get", "ac_run", "reg_log"}
  /\ \E h \in HttpIds :
       httpResp[h] = Response(200, TRUE, "Receiver registered", Null)
  /\ licenses = InitLicenses

\* The requests of one window: the request i that opened it and the later
\* requests of the same client up to the window's reset time.
WindowOf(i) ==
  {j \in DOMAIN served :
     /\ j >= i
     /\ served[j].ip = served[i].ip
     /\ served[j].at <= served[i].at + WindowMs}
PassedIn(i, upto) ==
  Cardinality({j \in WindowOf(i) : j < upto /\ served[j].passed})
\* The request that opened the window current before request j of that client.
LastOpening(j) ==
  LET before == {i \in DOMAIN served :
                   i < j /\ served[i].ip = served[j].ip /\ served[i].opened}
  IN  IF before = {} THEN 0 ELSE CHOOSE i \in before : \A k \in before : k <= i

\* C30: the limiter made by createRateLimiter(N) passes at most N requests of a
\* client within one 60-second window: the requests passed from a window's
\* start to its reset time never number more than N; once N have been passed
\* every further request of the window is answered 429; the first request after
\* the reset time is passed and opens a new window with count 1; and a request
\* of one client leaves every other client's counter as it is.
C30_AtMostNPerWindow ==
  /\ [](\A i \in DOMAIN served :
          served[i].opened =>
            /\ PassedIn(i, Len(served) + 1) <= limiter.requestsPerMinute
            /\ \A j \in WindowOf(i) :
                 PassedIn(i, j) >= limiter.requestsPerMinute =>
                   ~served[j].passed /\ served[j].status = TooManyRequests)
  /\ [](\A j \in DOMAIN served :
          LastOpening(j) # 0 /\ served[j].at > served[LastOpening(j)].at + WindowMs =>
            served[j].passed /\ served[j].opened /\ served[j].count = 1)
  /\ [][\A ip \in RateIps :
          RateLimitedRequest(ip) =>
            \A other \in DOMAIN limiter.requests \ {ip} :
              limiter'.requests[other] = limiter.requests[other]]_vars

====
